---- MODULE Spec2Model ----
(***************************************************************************)
(* Gold purchase cost formulas of the Vox Populi mechanics visualizer      *)
(* (lib/formulas/gold-purchase.ts, lib/formulas/modifiers.ts).             *)
(*                                                                         *)
(* The formulas are pure functions over integers; each is an operator      *)
(* translated stage by stage from its TypeScript body.  Math.floor(a / b)  *)
(* with b > 0 is a \div b (TLA+ integer division rounds toward minus       *)
(* infinity, as Math.floor does).  The state machine draws the inputs of   *)
(* a call, applies one operation and records its result.                   *)
(*                                                                         *)
(* Real-valued quantities are modelled exactly as rationals:               *)
(*   - HURRY_GOLD_PRODUCTION_EXPONENT is a pair <<num, den>> (0.75 is      *)
(*     <<3, 4>>, 0.5 is <<1, 2>>), and floor(pow(b, num/den)) is the       *)
(*     largest r with r^den <= b^num; b^num has to stay below 2^31, so     *)
(*     the CP preset 0.75 and the slider minimum 0.5 stand for the         *)
(*     exponent (the VP preset 0.68 = 17/25 would need b^17);              *)
(*   - a gold/production ratio is a pair <<gold, production>> compared by  *)
(*     cross multiplication.                                               *)
(***************************************************************************)
EXTENDS Integers, Sequences, FiniteSets, TLC

VARIABLES
    productionCost,   \* production cost of the item the call is about
    ctx,              \* GameContext: [gameSpeed |-> [hurryPercent |-> h]]
    hurryModifier,    \* stacking hurry modifier (policies/buildings), percent
    techProgress,     \* tech progress percentage
    constants,        \* GoldPurchaseConstants in use
    op,               \* operation applied so far ("none" before the call)
    options,          \* options object handed to the unit/building call
    result,           \* integer returned by a purchase-cost operation
    ratio,            \* <<gold, production>> returned by getGoldToProductionRatio
    targetRatio,      \* target of getBreakEvenProductionCost, <<num, den>>
    low,              \* getBreakEvenProductionCost: local `low`
    high,             \* getBreakEvenProductionCost: local `high`
    pc,               \* getBreakEvenProductionCost: "idle", "loop" or "done"
    cachedTechProgressData, \* module-level cache of tech-progress.ts (Null when empty)
    techProgressData, \* value the last buildTechProgressData call returned
    builtFrom,        \* history: <<catalog>> the build body ran on since the last clear
    buildRuns,        \* history: runs of the build body since the last clear
    returnedSinceClear, \* history: values returned by build calls since the last clear
    cleared,          \* history: clearTechProgressCache has been called
    gridX,            \* column handed to getEstimatedTechsAtGridX
    techs,            \* count returned by getEstimatedTechsAtGridX
    techOp,           \* last tech-progress operation and the branch it took
    samples,          \* data points handed to buildProductionGridXCorrelation
    entityType,       \* entity kind handed to buildProductionGridXCorrelation
    correlation,      \* ProductionGridXCorrelation in use (Null before it is built)
    cost,             \* production cost queried against the correlation
    lowerPoint,       \* index of the lower bound found by the scan (0 for null)
    upperPoint,       \* index of the upper bound found by the scan (0 for null)
    branch,           \* return statement getGridXFromProductionCorrelation took
    estimatedGridX,   \* column it returned, a rational <<num, den>>
    estimatedTechs,   \* count returned by getEstimatedTechsFromProductionCorrelation
    corrOp,            \* last correlation operation
    estimateTable, \* static table queried: "building" or "wonder"
    estimateCost, \* production cost handed to the nearest-neighbor estimate
    closestColumn, \* closestGridX as returned by the estimate
    estOp, \* last nearest-neighbor operation
    allSources, \* source index: sequence of [sourceType, modifiers] in Map order
    enabledA, \* a set of enabled source ids
    enabledB, \* another set of enabled source ids
    scope, \* scope handed to calculateTotalHurryModifier
    totalA, \* total returned for enabledA
    totalB, \* total returned for enabledB
    totalUnion, \* total returned for the union of enabledA and enabledB
    totalsDone, \* calls of calculateTotalHurryModifier made so far
    building, \* Building handed to parseHurryModifiersFromBuilding
    parsedModifiers, \* array `modifiers` returned by parseHurryModifiersFromBuilding
    parseOp, \* last parse operation
    modValue, \* value handed to applyModifier
    modModifier, \* modifier handed to applyModifier, percent
    modResult, \* integer returned by applyModifier
    modOp, \* last applyModifier operation
    chainValue, \* value handed to applyModifierChain
    chainModifiers, \* modifiers handed to applyModifierChain, in the caller's order
    chainResult, \* integer returned by applyModifierChain
    chainOp, \* last applyModifierChain operation
    now, \* Date.now(), milliseconds
    lastRun, \* createThrottle: closure variable lastRun
    timeout, \* createThrottle: closure variable timeout, <<>> when undefined
    timers, \* timers set with setTimeout and neither fired nor cleared
    executions, \* history: executions of func, [time, args, trailing]
    lastCallArgs, \* history: arguments of the latest call of the throttled function
    throttleOp, \* last step of the throttled function
    clock, \* Date.now() for the debounced function, milliseconds
    debounceTimeout, \* createDebounce: closure variable timeout, <<>> when undefined
    debounceTimers, \* timers set by the debounced function and neither fired nor cleared
    debounceRuns, \* history: executions of func, [time, args]
    lastDebounceCall, \* history: <<[time, args]>> of the latest call
    bursts, \* history: calls made while no timer was pending
    debounceOp, \* last step of the debounced function
    plotDiv, \* graph page: the plot element is bound
    initialized, \* graph page: $state initialized
    dirtyEffects, \* graph page: effects scheduled to run
    effectDeps, \* graph page: signals each effect read in its last run
    plotNow, \* Date.now() on the graph page, milliseconds
    plotThrottle, \* closure of throttledUpdate: [lastRun, timeout]
    plotTimers, \* timers set by throttledUpdate and neither fired nor cleared
    plotlyCalls, \* history: calls of Plotly, [fn, time]
    lastChange, \* history: <<time>> of the latest control change
    plotOp \* last step on the graph page

costVars == <<productionCost, ctx, hurryModifier, techProgress, constants, op,
              options, result, ratio, targetRatio, low, high, pc>>

techVars == <<cachedTechProgressData, techProgressData, builtFrom, buildRuns,
              returnedSinceClear, cleared, gridX, techs, techOp>>

corrVars == <<samples, entityType, correlation, cost, lowerPoint, upperPoint,
              branch, estimatedGridX, estimatedTechs, corrOp>>

estVars == <<estimateTable, estimateCost, closestColumn, estOp>>

hurryVars == <<allSources, enabledA, enabledB, scope, totalA, totalB,
               totalUnion, totalsDone>>

parseVars == <<building, parsedModifiers, parseOp>>

modVars == <<modValue, modModifier, modResult, modOp>>

chainVars == <<chainValue, chainModifiers, chainResult, chainOp>>

throttleVars == <<now, lastRun, timeout, timers, executions, lastCallArgs,
                  throttleOp>>

debounceVars == <<clock, debounceTimeout, debounceTimers, debounceRuns,
                  lastDebounceCall, bursts, debounceOp>>

plotVars == <<plotDiv, initialized, dirtyEffects, effectDeps, plotNow,
              plotThrottle, plotTimers, plotlyCalls, lastChange, plotOp>>

vars == <<costVars, techVars, corrVars, estVars, hurryVars, parseVars, modVars, chainVars, throttleVars, debounceVars, plotVars>>

\* the absent value (null) of an object-typed variable
Null == [null |-> TRUE]

\* the tech-progress module as loaded and never called
TechProgressUnused ==
    /\ cachedTechProgressData = Null
    /\ techProgressData = Null
    /\ builtFrom = <<>>
    /\ buildRuns = 0
    /\ returnedSinceClear = {}
    /\ cleared = FALSE
    /\ gridX = 0
    /\ techs = 0
    /\ techOp = "none"

\* no correlation built or queried
CorrelationUnused ==
    /\ samples = <<>>
    /\ entityType = "building"
    /\ correlation = Null
    /\ cost = 0
    /\ lowerPoint = 0
    /\ upperPoint = 0
    /\ branch = "none"
    /\ estimatedGridX = <<0, 1>>
    /\ estimatedTechs = 0
    /\ corrOp = "none"

\* no purchase-cost operation called
PurchaseUnused ==
    /\ productionCost = 0
    /\ ctx = [gameSpeed |-> [hurryPercent |-> 100]]
    /\ hurryModifier = 0
    /\ techProgress = 0
    /\ constants = [none |-> TRUE]
    /\ op = "none"
    /\ options = [none |-> TRUE]
    /\ result = 0
    /\ ratio = <<0, 1>>
    /\ targetRatio = <<0, 1>>
    /\ low = 1
    /\ high = 10000
    /\ pc = "idle"

\* no nearest-neighbor estimate asked
EstimateUnused ==
    /\ estimateTable = "building"
    /\ estimateCost = 0
    /\ closestColumn = 0
    /\ estOp = "none"

\* no hurry-modifier total calculated
HurryUnused ==
    /\ allSources = <<>>
    /\ enabledA = {}
    /\ enabledB = {}
    /\ scope = "all"
    /\ totalA = 0
    /\ totalB = 0
    /\ totalUnion = 0
    /\ totalsDone = {}

\* no help text parsed
ParseUnused ==
    /\ building = [Type |-> "BUILDING", Name |-> "Building", Help |-> <<>>]
    /\ parsedModifiers = <<>>
    /\ parseOp = "none"

\* applyModifier not called
ModifierUnused ==
    /\ modValue = 0
    /\ modModifier = 0
    /\ modResult = 0
    /\ modOp = "none"

\* applyModifierChain not called
ChainUnused ==
    /\ chainValue = 0
    /\ chainModifiers = <<>>
    /\ chainResult = 0
    /\ chainOp = "none"

\* no throttled function made
ThrottleUnused ==
    /\ now = 0
    /\ lastRun = 0
    /\ timeout = <<>>
    /\ timers = {}
    /\ executions = <<>>
    /\ lastCallArgs = 0
    /\ throttleOp = "none"

\* no debounced function made
DebounceUnused ==
    /\ clock = 0
    /\ debounceTimeout = <<>>
    /\ debounceTimers = {}
    /\ debounceRuns = <<>>
    /\ lastDebounceCall = <<>>
    /\ bursts = 0
    /\ debounceOp = "none"

\* graph page not loaded
PlotUnused ==
    /\ plotDiv = FALSE
    /\ initialized = FALSE
    /\ dirtyEffects = {}
    /\ effectDeps = [e \in {"update", "initial"} |-> {}]
    /\ plotNow = 0
    /\ plotThrottle = [lastRun |-> 0, timeout |-> <<>>]
    /\ plotTimers = {}
    /\ plotlyCalls = <<>>
    /\ lastChange = <<>>
    /\ plotOp = "none"

\* the variables outside each group, and their unused values
outsideCost == <<techVars, corrVars, estVars, hurryVars, parseVars, modVars, chainVars, throttleVars, debounceVars, plotVars>>

OutsideCostUnused ==
    /\ TechProgressUnused
    /\ CorrelationUnused
    /\ EstimateUnused
    /\ HurryUnused
    /\ ParseUnused
    /\ ModifierUnused
    /\ ChainUnused
    /\ ThrottleUnused
    /\ DebounceUnused
    /\ PlotUnused

outsideTech == <<costVars, corrVars, estVars, hurryVars, parseVars, modVars, chainVars, throttleVars, debounceVars, plotVars>>

OutsideTechUnused ==
    /\ PurchaseUnused
    /\ CorrelationUnused
    /\ EstimateUnused
    /\ HurryUnused
    /\ ParseUnused
    /\ ModifierUnused
    /\ ChainUnused
    /\ ThrottleUnused
    /\ DebounceUnused
    /\ PlotUnused

outsideCorr == <<costVars, techVars, estVars, hurryVars, parseVars, modVars, chainVars, throttleVars, debounceVars, plotVars>>

OutsideCorrUnused ==
    /\ PurchaseUnused
    /\ TechProgressUnused
    /\ EstimateUnused
    /\ HurryUnused
    /\ ParseUnused
    /\ ModifierUnused
    /\ ChainUnused
    /\ ThrottleUnused
    /\ DebounceUnused
    /\ PlotUnused

outsideEst == <<costVars, techVars, corrVars, hurryVars, parseVars, modVars, chainVars, throttleVars, debounceVars, plotVars>>

OutsideEstUnused ==
    /\ PurchaseUnused
    /\ TechProgressUnused
    /\ CorrelationUnused
    /\ HurryUnused
    /\ ParseUnused
    /\ ModifierUnused
    /\ ChainUnused
    /\ ThrottleUnused
    /\ DebounceUnused
    /\ PlotUnused

outsideHurry == <<costVars, techVars, corrVars, estVars, parseVars, modVars, chainVars, throttleVars, debounceVars, plotVars>>

OutsideHurryUnused ==
    /\ PurchaseUnused
    /\ TechProgressUnused
    /\ CorrelationUnused
    /\ EstimateUnused
    /\ ParseUnused
    /\ ModifierUnused
    /\ ChainUnused
    /\ ThrottleUnused
    /\ DebounceUnused
    /\ PlotUnused

outsideParse == <<costVars, techVars, corrVars, estVars, hurryVars, modVars, chainVars, throttleVars, debounceVars, plotVars>>

OutsideParseUnused ==
    /\ PurchaseUnused
    /\ TechProgressUnused
    /\ CorrelationUnused
    /\ EstimateUnused
    /\ HurryUnused
    /\ ModifierUnused
    /\ ChainUnused
    /\ ThrottleUnused
    /\ DebounceUnused
    /\ PlotUnused

outsideMod == <<costVars, techVars, corrVars, estVars, hurryVars, parseVars, chainVars, throttleVars, debounceVars, plotVars>>

OutsideModUnused ==
    /\ PurchaseUnused
    /\ TechProgressUnused
    /\ CorrelationUnused
    /\ EstimateUnused
    /\ HurryUnused
    /\ ParseUnused
    /\ ChainUnused
    /\ ThrottleUnused
    /\ DebounceUnused
    /\ PlotUnused

outsideChain == <<costVars, techVars, corrVars, estVars, hurryVars, parseVars, modVars, throttleVars, debounceVars, plotVars>>

OutsideChainUnused ==
    /\ PurchaseUnused
    /\ TechProgressUnused
    /\ CorrelationUnused
    /\ EstimateUnused
    /\ HurryUnused
    /\ ParseUnused
    /\ ModifierUnused
    /\ ThrottleUnused
    /\ DebounceUnused
    /\ PlotUnused

outsideThrottle == <<costVars, techVars, corrVars, estVars, hurryVars, parseVars, modVars, chainVars, debounceVars, plotVars>>

OutsideThrottleUnused ==
    /\ PurchaseUnused
    /\ TechProgressUnused
    /\ CorrelationUnused
    /\ EstimateUnused
    /\ HurryUnused
    /\ ParseUnused
    /\ ModifierUnused
    /\ ChainUnused
    /\ DebounceUnused
    /\ PlotUnused

outsideDebounce == <<costVars, techVars, corrVars, estVars, hurryVars, parseVars, modVars, chainVars, throttleVars, plotVars>>

OutsideDebounceUnused ==
    /\ PurchaseUnused
    /\ TechProgressUnused
    /\ CorrelationUnused
    /\ EstimateUnused
    /\ HurryUnused
    /\ ParseUnused
    /\ ModifierUnused
    /\ ChainUnused
    /\ ThrottleUnused
    /\ PlotUnused

outsidePlot == <<costVars, techVars, corrVars, estVars, hurryVars, parseVars, modVars, chainVars, throttleVars, debounceVars>>

OutsidePlotUnused ==
    /\ PurchaseUnused
    /\ TechProgressUnused
    /\ CorrelationUnused
    /\ EstimateUnused
    /\ HurryUnused
    /\ ParseUnused
    /\ ModifierUnused
    /\ ChainUnused
    /\ ThrottleUnused
    /\ DebounceUnused

\* the utility modules unused
UtilitiesUnused ==
    /\ EstimateUnused
    /\ HurryUnused
    /\ ParseUnused
    /\ ModifierUnused
    /\ ChainUnused
    /\ ThrottleUnused
    /\ DebounceUnused
    /\ PlotUnused

----------------------------------------------------------------------------
(* Bounds of the model                                                     *)

\* largest production cost drawn for a purchase-cost call
MaxProduction == 16

\* largest production cost whose ratio is compared in the ratio properties
MaxRatioProduction == 36

----------------------------------------------------------------------------
(* Arithmetic helpers                                                      *)

Max(a, b) == IF a >= b THEN a ELSE b

\* acc * n^k when that is at most cap, otherwise cap + 1 (n >= 1); products
\* are formed only when they stay within cap
RECURSIVE SatPow(_, _, _, _)
SatPow(n, k, cap, acc) ==
    IF k = 0 THEN acc
    ELSE IF acc > cap \div n THEN cap + 1
    ELSE SatPow(n, k - 1, cap, acc * n)

\* largest r in lo..hi-1 with r^den <= target, given lo^den <= target < hi^den
RECURSIVE RootSearch(_, _, _, _)
RootSearch(lo, hi, den, target) ==
    IF hi - lo <= 1 THEN lo
    ELSE LET mid == (lo + hi) \div 2
         IN  IF SatPow(mid, den, target, 1) <= target
             THEN RootSearch(mid, hi, den, target)
             ELSE RootSearch(lo, mid, den, target)

\* Math.floor(Math.pow(base, num/den)) for base >= 1 and 0 < num <= den
PowFloor(base, exponent) ==
    IF base < 1 THEN 0
    ELSE RootSearch(0, base + 1, exponent[2],
                    SatPow(base, exponent[1], 2147483646, 1))

applyModifier(value, modifier) == (value * (100 + modifier)) \div 100

\* the rounding with the division left out
floorToDivisorUnrounded(value, divisor) == value

floorToDivisor(value, divisor) == (value \div divisor) * divisor

----------------------------------------------------------------------------
(* Constants                                                               *)

GOLD_PURCHASE_CONSTANTS_CP ==
    [GOLD_PURCHASE_GOLD_PER_PRODUCTION |-> 30,
     HURRY_GOLD_PRODUCTION_EXPONENT    |-> <<3, 4>>,
     GOLD_PURCHASE_VISIBLE_DIVISOR     |-> 10]

\* the CP preset with the slider's lowest exponent (0.5)
GOLD_PURCHASE_CONSTANTS_SQRT ==
    [GOLD_PURCHASE_CONSTANTS_CP EXCEPT !.HURRY_GOLD_PRODUCTION_EXPONENT = <<1, 2>>]

\* the CP preset with another visible divisor
GOLD_PURCHASE_CONSTANTS_DIV7 ==
    [GOLD_PURCHASE_CONSTANTS_CP EXCEPT !.GOLD_PURCHASE_VISIBLE_DIVISOR = 7]

\* constants for which the floored ratio is non-increasing over 1..9999
GOLD_PURCHASE_CONSTANTS_STEEP ==
    [GOLD_PURCHASE_GOLD_PER_PRODUCTION |-> 50000,
     HURRY_GOLD_PRODUCTION_EXPONENT    |-> <<1, 2>>,
     GOLD_PURCHASE_VISIBLE_DIVISOR     |-> 10]

GAME_SPEED_DEFAULTS ==
    [GAMESPEED_QUICK    |-> [hurryPercent |-> 67],
     GAMESPEED_STANDARD |-> [hurryPercent |-> 100],
     GAMESPEED_EPIC     |-> [hurryPercent |-> 150],
     GAMESPEED_MARATHON |-> [hurryPercent |-> 300]]

----------------------------------------------------------------------------
(* Core formula                                                            *)

\* the core formula as the plain C++ lines `cost *= 100 + mod; cost /= 100`,
\* without either max(0, ...)
getPurchaseCostFromProductionUnclamped(production, c, hurryMod, k) ==
    IF production <= 0 THEN 0
    ELSE LET purchaseCostBase == production * k.GOLD_PURCHASE_GOLD_PER_PRODUCTION
             cost0 == PowFloor(purchaseCostBase, k.HURRY_GOLD_PRODUCTION_EXPONENT)
             cost1 == (cost0 * (100 + hurryMod)) \div 100
         IN  (cost1 * c.gameSpeed.hurryPercent) \div 100

getPurchaseCostFromProduction(production, c, hurryMod, k) ==
    IF production <= 0 THEN 0
    ELSE LET purchaseCostBase == production * k.GOLD_PURCHASE_GOLD_PER_PRODUCTION
             cost0 == PowFloor(purchaseCostBase, k.HURRY_GOLD_PRODUCTION_EXPONENT)
             cost1 == IF hurryMod # 0
                      THEN (cost0 * Max(0, 100 + hurryMod)) \div 100
                      ELSE cost0
             cost2 == (cost1 * c.gameSpeed.hurryPercent) \div 100
         IN  Max(0, cost2)

----------------------------------------------------------------------------
(* Unit purchase cost                                                      *)

\* the unit pipeline with the building's divisor of the tech progress (3)
getUnitPurchaseCostThirds(production, c, o) ==
    IF o.hurryCostModifier = -1 THEN -1
    ELSE LET cost0 == getPurchaseCostFromProduction(production, c, o.hurryModifier,
                                                    o.constants)
             cost1 == (cost0 * Max(0, 100 + o.hurryCostModifier)) \div 100
             cost2 == (cost1 * Max(0, 100 + o.playerUnitPurchaseMod)) \div 100
             cost3 == IF o.enableVPAdjustments /\ o.techProgress > 0
                      THEN (cost2 * (100 + o.techProgress \div 3)) \div 100
                      ELSE cost2
             cost4 == IF o.enableVPAdjustments THEN (cost3 * 8) \div 10 ELSE cost3
             cost5 == floorToDivisor(cost4, o.constants.GOLD_PURCHASE_VISIBLE_DIVISOR)
         IN  Max(o.constants.GOLD_PURCHASE_VISIBLE_DIVISOR, cost5)

\* the unit pipeline without the early return for the -1 sentinel
getUnitPurchaseCostNoSentinel(production, c, o) ==
    LET cost0 == getPurchaseCostFromProduction(production, c, o.hurryModifier,
                                               o.constants)
        cost1 == (cost0 * Max(0, 100 + o.hurryCostModifier)) \div 100
        cost2 == (cost1 * Max(0, 100 + o.playerUnitPurchaseMod)) \div 100
        cost3 == IF o.enableVPAdjustments /\ o.techProgress > 0
                 THEN (cost2 * (100 + o.techProgress \div 2)) \div 100
                 ELSE cost2
        cost4 == IF o.enableVPAdjustments THEN (cost3 * 8) \div 10 ELSE cost3
        cost5 == floorToDivisor(cost4, o.constants.GOLD_PURCHASE_VISIBLE_DIVISOR)
    IN  Max(o.constants.GOLD_PURCHASE_VISIBLE_DIVISOR, cost5)

getUnitPurchaseCost(production, c, o) ==
    IF o.hurryCostModifier = -1 THEN -1
    ELSE LET cost0 == getPurchaseCostFromProduction(production, c, o.hurryModifier,
                                                    o.constants)
             cost1 == IF o.hurryCostModifier # 0
                      THEN (cost0 * Max(0, 100 + o.hurryCostModifier)) \div 100
                      ELSE cost0
             cost2 == IF o.playerUnitPurchaseMod # 0
                      THEN (cost1 * Max(0, 100 + o.playerUnitPurchaseMod)) \div 100
                      ELSE cost1
             cost3 == IF o.enableVPAdjustments /\ o.techProgress > 0
                      THEN LET techMod == o.techProgress \div 2
                           IN  (cost2 * (100 + techMod)) \div 100
                      ELSE cost2
             cost4 == IF o.enableVPAdjustments THEN (cost3 * 8) \div 10 ELSE cost3
             cost5 == floorToDivisor(cost4, o.constants.GOLD_PURCHASE_VISIBLE_DIVISOR)
         IN  Max(o.constants.GOLD_PURCHASE_VISIBLE_DIVISOR, cost5)

----------------------------------------------------------------------------
(* Building purchase (investment) cost                                     *)

\* the pipeline with the investment discount taken before the tech scaling
getBuildingPurchaseCostDiscountFirst(production, c, o) ==
    IF o.buildingHurryCostModifier = -1 THEN -1
    ELSE LET cost0 == getPurchaseCostFromProduction(production, c, o.hurryModifier,
                                                    o.constants)
             cost1 == (cost0 * (100 + o.buildingHurryCostModifier)) \div 100
             cost2 == (cost1 * (100 + o.playerBuildingPurchaseMod)) \div 100
             cost3 == IF o.isInvestment THEN (cost2 * 6) \div 10 ELSE cost2
             cost4 == IF o.enableTechScaling /\ o.techProgress > 0
                      THEN (cost3 * (100 + o.techProgress \div 3)) \div 100
                      ELSE cost3
             cost5 == floorToDivisor(cost4, o.constants.GOLD_PURCHASE_VISIBLE_DIVISOR)
         IN  Max(o.constants.GOLD_PURCHASE_VISIBLE_DIVISOR, cost5)

\* the regression of hurry-modifier-fix.md: the intrinsic modifier summed with
\* the stacking modifier and passed to the base-cost call as one percentage
getBuildingPurchaseCostMerged(production, c, o) ==
    IF o.buildingHurryCostModifier = -1 THEN -1
    ELSE LET cost0 == getPurchaseCostFromProduction(production, c,
                          o.hurryModifier + o.buildingHurryCostModifier, o.constants)
             cost2 == IF o.playerBuildingPurchaseMod # 0
                      THEN (cost0 * (100 + o.playerBuildingPurchaseMod)) \div 100
                      ELSE cost0
             cost3 == IF o.enableTechScaling /\ o.techProgress > 0
                      THEN (cost2 * (100 + o.techProgress \div 3)) \div 100
                      ELSE cost2
             cost4 == IF o.isInvestment THEN (cost3 * 6) \div 10 ELSE cost3
             cost5 == floorToDivisor(cost4, o.constants.GOLD_PURCHASE_VISIBLE_DIVISOR)
         IN  Max(o.constants.GOLD_PURCHASE_VISIBLE_DIVISOR, cost5)

\* the intrinsic modifier applied inside the base cost, before the game-speed
\* scaling, instead of after it
getBuildingPurchaseCostSwapped(production, c, o) ==
    IF o.buildingHurryCostModifier = -1 THEN -1
    ELSE LET k     == o.constants
             cost0 == IF production <= 0 THEN 0
                      ELSE LET power == PowFloor(
                                   production * k.GOLD_PURCHASE_GOLD_PER_PRODUCTION,
                                   k.HURRY_GOLD_PRODUCTION_EXPONENT)
                               stack == (power * Max(0, 100 + o.hurryModifier)) \div 100
                               own   == (stack * (100 + o.buildingHurryCostModifier))
                                            \div 100
                           IN  Max(0, (own * c.gameSpeed.hurryPercent) \div 100)
             cost2 == IF o.playerBuildingPurchaseMod # 0
                      THEN (cost0 * (100 + o.playerBuildingPurchaseMod)) \div 100
                      ELSE cost0
             cost3 == IF o.enableTechScaling /\ o.techProgress > 0
                      THEN (cost2 * (100 + o.techProgress \div 3)) \div 100
                      ELSE cost2
             cost4 == IF o.isInvestment THEN (cost3 * 6) \div 10 ELSE cost3
             cost5 == floorToDivisor(cost4, k.GOLD_PURCHASE_VISIBLE_DIVISOR)
         IN  Max(k.GOLD_PURCHASE_VISIBLE_DIVISOR, cost5)

\* the building pipeline returning the rounded cost without the minimum clamp
getBuildingPurchaseCostNoMinimum(production, c, o) ==
    IF o.buildingHurryCostModifier = -1 THEN -1
    ELSE LET cost0 == getPurchaseCostFromProduction(production, c, o.hurryModifier,
                                                    o.constants)
             cost1 == (cost0 * (100 + o.buildingHurryCostModifier)) \div 100
             cost2 == (cost1 * (100 + o.playerBuildingPurchaseMod)) \div 100
             cost3 == IF o.enableTechScaling /\ o.techProgress > 0
                      THEN (cost2 * (100 + o.techProgress \div 3)) \div 100
                      ELSE cost2
             cost4 == IF o.isInvestment THEN (cost3 * 6) \div 10 ELSE cost3
         IN  floorToDivisor(cost4, o.constants.GOLD_PURCHASE_VISIBLE_DIVISOR)

getBuildingPurchaseCost(production, c, o) ==
    IF o.buildingHurryCostModifier = -1 THEN -1
    ELSE LET cost0 == getPurchaseCostFromProduction(production, c, o.hurryModifier,
                                                    o.constants)
             cost1 == IF o.buildingHurryCostModifier # 0
                      THEN (cost0 * (100 + o.buildingHurryCostModifier)) \div 100
                      ELSE cost0
             cost2 == IF o.playerBuildingPurchaseMod # 0
                      THEN (cost1 * (100 + o.playerBuildingPurchaseMod)) \div 100
                      ELSE cost1
             cost3 == IF o.enableTechScaling /\ o.techProgress > 0
                      THEN LET techMod == o.techProgress \div 3
                           IN  (cost2 * (100 + techMod)) \div 100
                      ELSE cost2
             cost4 == IF o.isInvestment THEN (cost3 * 6) \div 10 ELSE cost3
             cost5 == floorToDivisor(cost4, o.constants.GOLD_PURCHASE_VISIBLE_DIVISOR)
         IN  Max(o.constants.GOLD_PURCHASE_VISIBLE_DIVISOR, cost5)

----------------------------------------------------------------------------
(* Project purchase cost                                                   *)

\* the project pipeline without the minimum clamp
getProjectPurchaseCostNoMinimum(production, c, hurryMod, k) ==
    floorToDivisor(getPurchaseCostFromProduction(production, c, hurryMod, k),
                   k.GOLD_PURCHASE_VISIBLE_DIVISOR)

getProjectPurchaseCost(production, c, hurryMod, k) ==
    LET cost0 == getPurchaseCostFromProduction(production, c, hurryMod, k)
        cost1 == floorToDivisor(cost0, k.GOLD_PURCHASE_VISIBLE_DIVISOR)
    IN  Max(k.GOLD_PURCHASE_VISIBLE_DIVISOR, cost1)

----------------------------------------------------------------------------
(* Gold to production ratio and break-even search                          *)

\* the ratio with the division by the production cost left out
getGoldToProductionRatioUndivided(production, c, k) ==
    IF production <= 0 THEN <<0, 1>>
    ELSE <<getPurchaseCostFromProduction(production, c, 0, k), 1>>

\* the real number n/d is <<n, d>> with d > 0; the `return 0` is <<0, 1>>
getGoldToProductionRatio(production, c, k) ==
    IF production <= 0 THEN <<0, 1>>
    ELSE <<getPurchaseCostFromProduction(production, c, 0, k), production>>

\* a > b for ratios with positive denominators
RatioGT(a, b) == a[1] * b[2] > b[1] * a[2]

RatioLE(a, b) == ~RatioGT(a, b)

\* getBreakEvenProductionCost: `let low = 1; let high = 10000;`
InitialLow == 1

InitialHigh == 10000

----------------------------------------------------------------------------
(* Inputs                                                                  *)

Productions == -1..MaxProduction

RatioProductions == -1..MaxRatioProduction

GameContexts == {[gameSpeed |-> GAME_SPEED_DEFAULTS[s]] : s \in DOMAIN GAME_SPEED_DEFAULTS}

\* stacking hurry modifiers, from no discount to more than -100%
HurryModifiers == {-120, -100, -20, 0}

TechProgresses == {0, 50, 66}

CostConstants == {GOLD_PURCHASE_CONSTANTS_CP, GOLD_PURCHASE_CONSTANTS_DIV7}

\* per-unit HurryCostModifier values (-1 marks "cannot be purchased")
UnitModifiers == {-150, -20, -1, 0, 25}

PlayerUnitModifiers == {-120, -10, 0}

\* per-building HurryCostModifier values (-20 buildings, -5 wonders, -1 sentinel)
BuildingModifiers == {-200, -20, -5, -1, 0}

PlayerBuildingModifiers == {-150, -10, 0}

RatioConstants == {GOLD_PURCHASE_CONSTANTS_CP, GOLD_PURCHASE_CONSTANTS_SQRT}

SearchConstants == {GOLD_PURCHASE_CONSTANTS_SQRT, GOLD_PURCHASE_CONSTANTS_STEEP}

\* target ratios <<num, den>> of the break-even search
TargetRatios ==
    {<<0, 1>>, <<1, 2>>, <<3, 2>>, <<3, 1>>, <<5, 1>>, <<17, 3>>, <<50, 1>>,
     <<1000, 1>>}

NoOptions == [none |-> TRUE]

----------------------------------------------------------------------------
(* Tech progress index (tech-progress.ts)                                  *)

\* most technologies in a catalog
MaxTechs == 3

\* largest progression column (GridX) of a technology
MaxTechGridX == 2

Min(a, b) == IF a <= b THEN a ELSE b

\* a JavaScript Map is a function with a finite domain
EmptyMap == [k \in {} |-> 0]

\* Map.get(key) || fallback
MapGet(map, key, fallback) == IF key \in DOMAIN map THEN map[key] ELSE fallback

\* Map.set(key, value)
MapSet(map, key, value) ==
    [k \in DOMAIN map \cup {key} |-> IF k = key THEN value ELSE map[k]]

\* a Technology record; Type and Name are unique per catalog position
Technology(i, g) == [Type |-> i, Name |-> i, GridX |-> g]

\* catalogs of at most MaxTechs technologies in columns 0..MaxTechGridX
Catalogs ==
    UNION {{[i \in 1..n |-> Technology(i, gs[i])] : gs \in [1..n -> 0..MaxTechGridX]}
           : n \in 0..MaxTechs}

\* first loop of buildTechProgressData: one pass over the catalog
RECURSIVE scanTechnologies(_, _, _, _, _, _)
scanTechnologies(technologies, i, techToGridX, techCountAtGridX, maxGridX, gridXToTechNames) ==
    IF i > Len(technologies)
    THEN [techToGridX |-> techToGridX, techCountAtGridX |-> techCountAtGridX,
          maxGridX |-> maxGridX, gridXToTechNames |-> gridXToTechNames]
    ELSE scanTechnologies(
             technologies, i + 1,
             MapSet(techToGridX, technologies[i].Type, technologies[i].GridX),
             MapSet(techCountAtGridX, technologies[i].GridX,
                    MapGet(techCountAtGridX, technologies[i].GridX, 0) + 1),
             Max(maxGridX, technologies[i].GridX),
             MapSet(gridXToTechNames, technologies[i].GridX,
                    Append(MapGet(gridXToTechNames, technologies[i].GridX, <<>>),
                           technologies[i].Name)))

\* second loop of buildTechProgressData: x = 0..maxGridX, running total
RECURSIVE accumulateTechs(_, _, _, _, _)
accumulateTechs(techCountAtGridX, maxGridX, x, cumulative, gridXToCumulativeTechs) ==
    IF x > maxGridX
    THEN gridXToCumulativeTechs
    ELSE accumulateTechs(
             techCountAtGridX, maxGridX, x + 1,
             cumulative + MapGet(techCountAtGridX, x, 0),
             MapSet(gridXToCumulativeTechs, x,
                    cumulative + MapGet(techCountAtGridX, x, 0)))

\* the body with the second loop stopping one column short (x < maxGridX)
computeTechProgressDataShort(technologies) ==
    LET scan == scanTechnologies(technologies, 1, EmptyMap, EmptyMap, 0, EmptyMap)
    IN  [techToGridX            |-> scan.techToGridX,
         gridXToCumulativeTechs |-> accumulateTechs(scan.techCountAtGridX,
                                                    scan.maxGridX - 1, 0, 0, EmptyMap),
         totalTechs             |-> Len(technologies),
         maxGridX               |-> scan.maxGridX,
         gridXToTechNames       |-> scan.gridXToTechNames]

\* the body storing a cumulative entry only for columns that hold a technology
computeTechProgressDataSparse(technologies) ==
    LET scan == scanTechnologies(technologies, 1, EmptyMap, EmptyMap, 0, EmptyMap)
        full == accumulateTechs(scan.techCountAtGridX, scan.maxGridX, 0, 0, EmptyMap)
    IN  [techToGridX            |-> scan.techToGridX,
         gridXToCumulativeTechs |-> [x \in DOMAIN scan.techCountAtGridX |-> full[x]],
         totalTechs             |-> Len(technologies),
         maxGridX               |-> scan.maxGridX,
         gridXToTechNames       |-> scan.gridXToTechNames]

\* body of buildTechProgressData past the cache test: the TechProgressData
\* object built from the catalog
computeTechProgressData(technologies) ==
    LET scan == scanTechnologies(technologies, 1, EmptyMap, EmptyMap, 0, EmptyMap)
    IN  [techToGridX            |-> scan.techToGridX,
         gridXToCumulativeTechs |-> accumulateTechs(scan.techCountAtGridX,
                                                    scan.maxGridX, 0, 0, EmptyMap),
         totalTechs             |-> Len(technologies),
         maxGridX               |-> scan.maxGridX,
         gridXToTechNames       |-> scan.gridXToTechNames]

\* buildTechProgressData without the cache test: every call rebuilds
buildTechProgressDataUncached(technologies, cache) ==
    [value |-> computeTechProgressData(technologies), ran |-> TRUE]

\* buildTechProgressData(technologies) against the cache: the value returned
\* (which is also the cache afterwards) and whether the build body ran
buildTechProgressData(technologies, cache) ==
    IF cache # Null
    THEN [value |-> cache, ran |-> FALSE]
    ELSE [value |-> computeTechProgressData(technologies), ran |-> TRUE]

\* a clear that leaves the cached object in place
clearTechProgressCacheKept == cachedTechProgressData

\* clearTechProgressCache(): the cache afterwards
clearTechProgressCache == Null

\* the lookup without the clamp
getEstimatedTechsAtGridXUnclamped(data, x) ==
    MapGet(data.gridXToCumulativeTechs, x, 0)

\* getEstimatedTechsAtGridX(techProgressData, gridX)
getEstimatedTechsAtGridX(data, x) ==
    LET clampedX == Max(0, Min(x, data.maxGridX))
    IN  MapGet(data.gridXToCumulativeTechs, clampedX, 0)

\* columns looked up: two on either side of the possible range
LookupColumns == -2..(MaxTechGridX + 2)

InitTechProgress ==
    /\ OutsideTechUnused
    /\ TechProgressUnused

\* one synchronous call of buildTechProgressData by any caller
CallBuildTechProgressData ==
    \E technologies \in Catalogs :
        \E call \in {buildTechProgressData(technologies, cachedTechProgressData)} :
            /\ cachedTechProgressData' = call.value
            /\ techProgressData' = call.value
            /\ builtFrom' = IF call.ran THEN <<technologies>> ELSE builtFrom
            /\ buildRuns' = IF call.ran THEN buildRuns + 1 ELSE buildRuns
            /\ returnedSinceClear' = returnedSinceClear \cup {call.value}
            /\ techOp' = IF call.ran THEN "build" ELSE "reuse"
            /\ UNCHANGED <<cleared, gridX, techs>>
            /\ UNCHANGED outsideTech

CallClearTechProgressCache ==
    /\ cachedTechProgressData' = clearTechProgressCache
    /\ builtFrom' = <<>>
    /\ buildRuns' = 0
    /\ returnedSinceClear' = {}
    /\ cleared' = TRUE
    /\ techOp' = "clear"
    /\ UNCHANGED <<techProgressData, gridX, techs>>
    /\ UNCHANGED outsideTech

\* a caller looks a column up in the data it holds
CallGetEstimatedTechsAtGridX ==
    /\ techProgressData # Null
    /\ \E x \in LookupColumns :
        /\ gridX' = x
        /\ techs' = getEstimatedTechsAtGridX(techProgressData, x)
    /\ techOp' = "lookup"
    /\ UNCHANGED <<cachedTechProgressData, techProgressData, builtFrom, buildRuns,
                   returnedSinceClear, cleared>>
    /\ UNCHANGED outsideTech

NextTechProgress ==
    \/ CallBuildTechProgressData
    \/ CallClearTechProgressCache
    \/ CallGetEstimatedTechsAtGridX

SpecTechProgress == InitTechProgress /\ [][NextTechProgress]_vars

----------------------------------------------------------------------------
(* Production cost to column correlation (tech-progress.ts)                *)

\* most data points handed to buildProductionGridXCorrelation
MaxSamples == 3

Abs(a) == IF a >= 0 THEN a ELSE -a

RECURSIVE GCD(_, _)
GCD(a, b) == IF b = 0 THEN a ELSE GCD(b, a % b)

\* the number num/den (den > 0) as a pair in lowest terms
Number(num, den) ==
    LET g == GCD(Abs(num), den) IN <<num \div g, den \div g>>

\* numbers compared by cross-multiplication
NumberLE(a, b) == a[1] * b[2] <= b[1] * a[2]

\* Math.floor in the place of Math.round
MathRoundDown(a) == a[1] \div a[2]

\* Math.round: the nearest integer, halves rounded towards +Infinity
MathRound(a) == (2 * a[1] + a[2]) \div (2 * a[2])

\* standard building cost at each column
BUILDING_COST_BY_GRIDX ==
    [g \in 0..16 |->
        <<65, 65, 110, 150, 200, 300, 350, 500, 600, 1000, 1250, 1800, 2000,
          2250, 2250, 2500, 2750>>[g + 1]]

\* the loop of the nearest-neighbor estimate over columns gridX..last, in
\* the table's insertion order; closestDistance -1 stands for Infinity
RECURSIVE closestInTable(_, _, _, _, _, _)
closestInTable(table, queried, g, last, closestGridX, closestDistance) ==
    IF g > last
    THEN closestGridX
    ELSE IF closestDistance = -1 \/ Abs(queried - table[g]) < closestDistance
         THEN closestInTable(table, queried, g + 1, last, g,
                             Abs(queried - table[g]))
         ELSE closestInTable(table, queried, g + 1, last, closestGridX,
                             closestDistance)

\* the estimate keeping the last column of minimum distance (distance <=
\* closestDistance)
estimateGridXFromBuildingCostLast(queried) ==
    CHOOSE g \in DOMAIN BUILDING_COST_BY_GRIDX :
        \A h \in DOMAIN BUILDING_COST_BY_GRIDX :
            \/ Abs(queried - BUILDING_COST_BY_GRIDX[g])
                   < Abs(queried - BUILDING_COST_BY_GRIDX[h])
            \/ /\ Abs(queried - BUILDING_COST_BY_GRIDX[g])
                      = Abs(queried - BUILDING_COST_BY_GRIDX[h])
               /\ g >= h

\* estimateGridXFromBuildingCost(productionCost)
estimateGridXFromBuildingCost(queried) ==
    closestInTable(BUILDING_COST_BY_GRIDX, queried, 0, 16, 0, -1)

\* production costs and columns of the data points drawn
SampleCosts == {300, 600, 900}

SampleColumns == {5, 8}

EntityTypes == {"unit", "building"}

\* a ProductionGridXDataPoint; the name tells equal points of one array apart
DataPoint(c, g, n) == [productionCost |-> c, gridX |-> g, name |-> n]

\* arrays of at most MaxSamples data points, in any order
SampleArrays ==
    UNION {{[i \in 1..n |-> DataPoint(cs[i], gs[i], i)] :
                cs \in [1..n -> SampleCosts], gs \in [1..n -> SampleColumns]}
           : n \in 0..MaxSamples}

\* production costs queried: below, at, between and above the sampled costs
QueryCosts == {150, 300, 400, 450, 600, 750, 900, 1000}

\* Array.prototype.sort with (a, b) => a.productionCost - b.productionCost:
\* a stable sort, here by inserting each point after the points sorted so
\* far whose cost is not larger
RECURSIVE sortByProductionCost(_, _, _)
sortByProductionCost(points, i, sorted) ==
    IF i > Len(points)
    THEN sorted
    ELSE LET k == Cardinality({j \in 1..Len(sorted) :
                     sorted[j].productionCost <= points[i].productionCost})
         IN  sortByProductionCost(points, i + 1,
                 SubSeq(sorted, 1, k) \o <<points[i]>>
                     \o SubSeq(sorted, k + 1, Len(sorted)))

\* buildProductionGridXCorrelation(dataPoints, entityType)
buildProductionGridXCorrelation(dataPoints, kind) ==
    [dataPoints |-> sortByProductionCost(dataPoints, 1, <<>>), entityType |-> kind]

\* the scan taking only strictly cheaper and strictly dearer points as bounds
RECURSIVE scanBoundsStrict(_, _, _, _, _)
scanBoundsStrict(dataPoints, queried, i, lower, upper) ==
    IF i > Len(dataPoints)
    THEN [lowerPoint |-> lower, upperPoint |-> upper]
    ELSE scanBoundsStrict(
             dataPoints, queried, i + 1,
             IF /\ dataPoints[i].productionCost < queried
                /\ (lower = 0 \/ dataPoints[i].productionCost
                                     > dataPoints[lower].productionCost)
             THEN i ELSE lower,
             IF /\ dataPoints[i].productionCost > queried
                /\ (upper = 0 \/ dataPoints[i].productionCost
                                     < dataPoints[upper].productionCost)
             THEN i ELSE upper)

\* the bound scan of getGridXFromProductionCorrelation from point i on;
\* lowerPoint and upperPoint are indices into dataPoints, 0 for null
RECURSIVE scanBounds(_, _, _, _, _)
scanBounds(dataPoints, queried, i, lower, upper) ==
    IF i > Len(dataPoints)
    THEN [lowerPoint |-> lower, upperPoint |-> upper]
    ELSE scanBounds(
             dataPoints, queried, i + 1,
             IF /\ dataPoints[i].productionCost <= queried
                /\ (lower = 0 \/ dataPoints[i].productionCost
                                     > dataPoints[lower].productionCost)
             THEN i ELSE lower,
             IF /\ dataPoints[i].productionCost >= queried
                /\ (upper = 0 \/ dataPoints[i].productionCost
                                     < dataPoints[upper].productionCost)
             THEN i ELSE upper)

\* the return statements with a one-sided bound extrapolated along a unit slope
returnFromBoundsExtrapolated(dataPoints, queried, bounds) ==
    LET lo == bounds.lowerPoint
        up == bounds.upperPoint
    IN  IF lo # 0 /\ up # 0 /\ lo # up
        THEN [gridX |-> Number(
                  dataPoints[lo].gridX
                      * (dataPoints[up].productionCost - dataPoints[lo].productionCost)
                    + (queried - dataPoints[lo].productionCost)
                      * (dataPoints[up].gridX - dataPoints[lo].gridX),
                  dataPoints[up].productionCost - dataPoints[lo].productionCost),
              branch |-> "interpolate", lowerPoint |-> lo, upperPoint |-> up]
        ELSE IF lo # 0
        THEN [gridX |-> Number(dataPoints[lo].gridX
                                   + (queried - dataPoints[lo].productionCost), 1),
              branch |-> "lower", lowerPoint |-> lo, upperPoint |-> up]
        ELSE IF up # 0
        THEN [gridX |-> Number(dataPoints[up].gridX
                                   - (dataPoints[up].productionCost - queried), 1),
              branch |-> "upper", lowerPoint |-> lo, upperPoint |-> up]
        ELSE [gridX |-> Number(estimateGridXFromBuildingCost(queried), 1),
              branch |-> "fallback", lowerPoint |-> lo, upperPoint |-> up]

\* the return statements with the interpolation weight measured from the
\* upper bound
returnFromBoundsInverted(dataPoints, queried, bounds) ==
    LET lo == bounds.lowerPoint
        up == bounds.upperPoint
    IN  IF lo # 0 /\ up # 0 /\ lo # up
        THEN [gridX |-> Number(
                  dataPoints[lo].gridX
                      * (dataPoints[up].productionCost - dataPoints[lo].productionCost)
                    + (dataPoints[up].productionCost - queried)
                      * (dataPoints[up].gridX - dataPoints[lo].gridX),
                  dataPoints[up].productionCost - dataPoints[lo].productionCost),
              branch |-> "interpolate", lowerPoint |-> lo, upperPoint |-> up]
        ELSE IF lo # 0
        THEN [gridX |-> Number(dataPoints[lo].gridX, 1),
              branch |-> "lower", lowerPoint |-> lo, upperPoint |-> up]
        ELSE IF up # 0
        THEN [gridX |-> Number(dataPoints[up].gridX, 1),
              branch |-> "upper", lowerPoint |-> lo, upperPoint |-> up]
        ELSE [gridX |-> Number(estimateGridXFromBuildingCost(queried), 1),
              branch |-> "fallback", lowerPoint |-> lo, upperPoint |-> up]

\* the return statements of getGridXFromProductionCorrelation after the scan
returnFromBounds(dataPoints, queried, bounds) ==
    LET lo == bounds.lowerPoint
        up == bounds.upperPoint
    IN  IF lo # 0 /\ up # 0 /\ lo # up
        THEN [gridX |-> Number(
                  dataPoints[lo].gridX
                      * (dataPoints[up].productionCost - dataPoints[lo].productionCost)
                    + (queried - dataPoints[lo].productionCost)
                      * (dataPoints[up].gridX - dataPoints[lo].gridX),
                  dataPoints[up].productionCost - dataPoints[lo].productionCost),
              branch |-> "interpolate", lowerPoint |-> lo, upperPoint |-> up]
        ELSE IF lo # 0
        THEN [gridX |-> Number(dataPoints[lo].gridX, 1),
              branch |-> "lower", lowerPoint |-> lo, upperPoint |-> up]
        ELSE IF up # 0
        THEN [gridX |-> Number(dataPoints[up].gridX, 1),
              branch |-> "upper", lowerPoint |-> lo, upperPoint |-> up]
        ELSE [gridX |-> Number(estimateGridXFromBuildingCost(queried), 1),
              branch |-> "fallback", lowerPoint |-> lo, upperPoint |-> up]

\* the lookup without the test for an empty array
getGridXFromProductionCorrelationUntested(corr, queried) ==
    returnFromBounds(corr.dataPoints, queried,
                     scanBounds(corr.dataPoints, queried, 1, 0, 0))

\* getGridXFromProductionCorrelation(correlation, productionCost): the column
\* returned, the return statement taken and the bounds the scan found
getGridXFromProductionCorrelation(corr, queried) ==
    IF Len(corr.dataPoints) = 0
    THEN [gridX |-> Number(estimateGridXFromBuildingCost(queried), 1),
          branch |-> "empty", lowerPoint |-> 0, upperPoint |-> 0]
    ELSE returnFromBounds(corr.dataPoints, queried,
                          scanBounds(corr.dataPoints, queried, 1, 0, 0))

\* getEstimatedTechsFromProductionCorrelation(data, correlation, productionCost)
getEstimatedTechsFromProductionCorrelation(data, corr, queried) ==
    getEstimatedTechsAtGridX(
        data, MathRound(getGridXFromProductionCorrelation(corr, queried).gridX))

\* the catalog behind the index the correlation is read against: one
\* technology in each of the columns 0..9
CorrelationCatalog == [i \in 1..10 |-> Technology(i, i - 1)]

InitCorrelation ==
    /\ PurchaseUnused
    /\ UtilitiesUnused
    /\ cachedTechProgressData = computeTechProgressData(CorrelationCatalog)
    /\ techProgressData = cachedTechProgressData
    /\ builtFrom = <<CorrelationCatalog>>
    /\ buildRuns = 1
    /\ returnedSinceClear = {cachedTechProgressData}
    /\ cleared = FALSE
    /\ gridX = 0
    /\ techs = 0
    /\ techOp = "build"
    /\ samples \in SampleArrays
    /\ entityType \in EntityTypes
    /\ correlation = Null
    /\ cost = 0
    /\ lowerPoint = 0
    /\ upperPoint = 0
    /\ branch = "none"
    /\ estimatedGridX = <<0, 1>>
    /\ estimatedTechs = 0
    /\ corrOp = "none"

CallBuildProductionGridXCorrelation ==
    /\ correlation = Null
    /\ correlation' = buildProductionGridXCorrelation(samples, entityType)
    /\ corrOp' = "built"
    /\ UNCHANGED <<samples, entityType, cost, lowerPoint, upperPoint, branch,
                   estimatedGridX, estimatedTechs>>
    /\ UNCHANGED outsideCorr

CallGetGridXFromProductionCorrelation ==
    /\ correlation # Null
    /\ \E c \in QueryCosts :
        \E call \in {getGridXFromProductionCorrelation(correlation, c)} :
            /\ cost' = c
            /\ lowerPoint' = call.lowerPoint
            /\ upperPoint' = call.upperPoint
            /\ branch' = call.branch
            /\ estimatedGridX' = call.gridX
    /\ corrOp' = "gridX"
    /\ UNCHANGED <<samples, entityType, correlation, estimatedTechs>>
    /\ UNCHANGED outsideCorr

CallGetEstimatedTechsFromProductionCorrelation ==
    /\ correlation # Null
    /\ \E c \in QueryCosts :
        \E call \in {getGridXFromProductionCorrelation(correlation, c)} :
            /\ cost' = c
            /\ lowerPoint' = call.lowerPoint
            /\ upperPoint' = call.upperPoint
            /\ branch' = call.branch
            /\ estimatedGridX' = call.gridX
            /\ estimatedTechs' = getEstimatedTechsFromProductionCorrelation(
                                     techProgressData, correlation, c)
    /\ corrOp' = "techs"
    /\ UNCHANGED <<samples, entityType, correlation>>
    /\ UNCHANGED outsideCorr

NextCorrelation ==
    \/ CallBuildProductionGridXCorrelation
    \/ CallGetGridXFromProductionCorrelation
    \/ CallGetEstimatedTechsFromProductionCorrelation

SpecCorrelation == InitCorrelation /\ [][NextCorrelation]_vars

----------------------------------------------------------------------------
(* Static nearest-neighbor estimates (tech-progress.ts)                    *)

\* largest production cost handed to a nearest-neighbor estimate
MaxEstimateCost == 3300

\* wonder cost at each column
WONDER_COST_BY_GRIDX ==
    [g \in 1..17 |->
        <<150, 185, 200, 250, 400, 500, 800, 900, 1000, 1250, 1600, 1700, 1900,
          2150, 2300, 3000, 3250>>[g]]

\* estimateGridXFromWonderCost(productionCost)
estimateGridXFromWonderCost(queried) ==
    closestInTable(WONDER_COST_BY_GRIDX, queried, 1, 17, 1, -1)

EstimateCosts == 0..MaxEstimateCost

EstimateTables == {"building", "wonder"}

InitEstimate ==
    /\ OutsideEstUnused
    /\ estimateTable \in EstimateTables
    /\ estimateCost \in EstimateCosts
    /\ closestColumn = 0
    /\ estOp = "none"

CallEstimateGridXFromBuildingCost ==
    /\ estOp = "none"
    /\ estimateTable = "building"
    /\ closestColumn' = estimateGridXFromBuildingCost(estimateCost)
    /\ estOp' = "estimate"
    /\ UNCHANGED <<estimateTable, estimateCost>>
    /\ UNCHANGED outsideEst

CallEstimateGridXFromWonderCost ==
    /\ estOp = "none"
    /\ estimateTable = "wonder"
    /\ closestColumn' = estimateGridXFromWonderCost(estimateCost)
    /\ estOp' = "estimate"
    /\ UNCHANGED <<estimateTable, estimateCost>>
    /\ UNCHANGED outsideEst

NextEstimate ==
    \/ CallEstimateGridXFromBuildingCost
    \/ CallEstimateGridXFromWonderCost

SpecEstimate == InitEstimate /\ [][NextEstimate]_vars

----------------------------------------------------------------------------
(* Hurry modifier aggregation (hurry-modifiers.ts)                         *)

\* most source ids (building or policy types) in play
MaxSources == 3

\* a HurryModifierSource, reduced to the fields the total reads
HurryModifierSource(m, sc) == [modifier |-> m, scope |-> sc]

\* modifier lists a source may carry: Forbidden Palace, Stock Exchange,
\* Rialto District (local and empire), an Industry policy
ModifierLists ==
    { <<HurryModifierSource(-15, "empire")>>,
      <<HurryModifierSource(-20, "local")>>,
      <<HurryModifierSource(-5, "local"), HurryModifierSource(-10, "empire")>> }

SourceIds == 1..MaxSources

\* the entries of a source index over the ids in `present`, in id order
RECURSIVE IndexEntries(_, _, _)
IndexEntries(lists, present, id) ==
    IF id > MaxSources
    THEN <<>>
    ELSE IF id \in present
         THEN <<[sourceType |-> id, modifiers |-> lists[id]]>>
                  \o IndexEntries(lists, present, id + 1)
         ELSE IndexEntries(lists, present, id + 1)

\* source indexes: any subset of the ids, each with one of the lists
SourceIndexes ==
    {IndexEntries(lists, present, 1) :
         lists \in [SourceIds -> ModifierLists], present \in SUBSET SourceIds}

Scopes == {"local", "empire", "all"}

\* inner loop of calculateTotalHurryModifier: the modifiers of one source
RECURSIVE addModifiers(_, _, _, _)
addModifiers(modifiers, i, sc, total) ==
    IF i > Len(modifiers)
    THEN total
    ELSE addModifiers(modifiers, i + 1, sc,
                      IF sc = "all" \/ modifiers[i].scope = sc
                      THEN total + modifiers[i].modifier
                      ELSE total)

\* outer loop of calculateTotalHurryModifier: the entries of the index
RECURSIVE addSources(_, _, _, _, _)
addSources(enabledSources, sources, i, sc, total) ==
    IF i > Len(sources)
    THEN total
    ELSE addSources(enabledSources, sources, i + 1, sc,
                    IF sources[i].sourceType \notin enabledSources
                    THEN total
                    ELSE addModifiers(sources[i].modifiers, 1, sc, total))

\* the total over every source of the index, enabled or not
calculateTotalHurryModifierUnfiltered(enabledSources, sources, sc) ==
    addSources(SourceIds, sources, 1, sc, 0)

\* calculateTotalHurryModifier(enabledSources, allSources, scope)
calculateTotalHurryModifier(enabledSources, sources, sc) ==
    addSources(enabledSources, sources, 1, sc, 0)

InitHurry ==
    /\ OutsideHurryUnused
    /\ allSources \in SourceIndexes
    /\ enabledA \in SUBSET SourceIds
    /\ enabledB \in SUBSET SourceIds
    /\ scope \in Scopes
    /\ totalA = 0
    /\ totalB = 0
    /\ totalUnion = 0
    /\ totalsDone = {}

CallCalculateTotalHurryModifierA ==
    /\ "A" \notin totalsDone
    /\ totalA' = calculateTotalHurryModifier(enabledA, allSources, scope)
    /\ totalsDone' = totalsDone \cup {"A"}
    /\ UNCHANGED <<allSources, enabledA, enabledB, scope, totalB, totalUnion>>
    /\ UNCHANGED outsideHurry

CallCalculateTotalHurryModifierB ==
    /\ "B" \notin totalsDone
    /\ totalB' = calculateTotalHurryModifier(enabledB, allSources, scope)
    /\ totalsDone' = totalsDone \cup {"B"}
    /\ UNCHANGED <<allSources, enabledA, enabledB, scope, totalA, totalUnion>>
    /\ UNCHANGED outsideHurry

CallCalculateTotalHurryModifierUnion ==
    /\ "union" \notin totalsDone
    /\ totalUnion' = calculateTotalHurryModifier(enabledA \cup enabledB,
                                                 allSources, scope)
    /\ totalsDone' = totalsDone \cup {"union"}
    /\ UNCHANGED <<allSources, enabledA, enabledB, scope, totalA, totalB>>
    /\ UNCHANGED outsideHurry

NextHurry ==
    \/ CallCalculateTotalHurryModifierA
    \/ CallCalculateTotalHurryModifierB
    \/ CallCalculateTotalHurryModifierUnion

SpecHurry == InitHurry /\ [][NextHurry]_vars

----------------------------------------------------------------------------
(* Hurry modifier parsing (hurry-modifiers.ts)                             *)

\* most clauses in a help text
MaxClauses == 2

\* A help text is a sequence of clauses.  A clause is either text without
\* the discount phrase, or one occurrence of
\*     <sign><digits>% [ICON_GOLD] Gold cost for Purchase or Investment
\* followed by a gap of whitespace and by what comes after the gap.
PlainText == [kind |-> "text"]

Discount(sg, n, gp, fl) ==
    [kind |-> "discount", sign |-> sg, digits |-> n, gap |-> gp, follows |-> fl]

Signs == {"-", ""}

Digits == {5, 15}

\* whitespace after "Investment": one space, or two
Gaps == {" ", "  "}

Followers == {"in all Cities", "other"}

Clauses ==
    {PlainText} \cup
    {Discount(sg, n, gp, fl) : sg \in Signs, n \in Digits, gp \in Gaps,
                               fl \in Followers}

HelpTexts == UNION {[1..n -> Clauses] : n \in 0..MaxClauses}

\* buildings: Help is <<>> when the field is absent, <<text>> otherwise
Buildings ==
    {[Type |-> "BUILDING", Name |-> "Building", Help |-> <<>>]} \cup
    {[Type |-> "BUILDING", Name |-> "Building", Help |-> <<h>>] : h \in HelpTexts}

\* parseInt(match[1], 10) of the capture (-?\d+)
parseInt(clause) ==
    IF clause.sign = "-" THEN 0 - clause.digits ELSE clause.digits

\* localPattern matches at a clause: the phrase, not followed by
\* (?!\s+in all Cities), one or more whitespace and "in all Cities"
localPattern(clause) ==
    /\ clause.kind = "discount"
    /\ ~(clause.gap # "" /\ clause.follows = "in all Cities")

\* empirePattern matches at a clause: the phrase, one space, "in all Cities"
empirePattern(clause) ==
    /\ clause.kind = "discount"
    /\ clause.gap = " "
    /\ clause.follows = "in all Cities"

\* one exec loop: the sources pushed for pattern sc from clause i on
RECURSIVE execLoop(_, _, _, _)
execLoop(b, sc, i, pushed) ==
    IF i > Len(b.Help[1])
    THEN pushed
    ELSE execLoop(b, sc, i + 1,
             IF \/ sc = "local" /\ localPattern(b.Help[1][i])
                \/ sc = "empire" /\ empirePattern(b.Help[1][i])
             THEN Append(pushed, [type |-> b.Type, name |-> b.Name,
                                  modifier |-> parseInt(b.Help[1][i]),
                                  scope |-> sc])
             ELSE pushed)

\* parseHurryModifiersFromBuilding(building)
parseHurryModifiersFromBuilding(b) ==
    IF b.Help = <<>> \/ b.Help[1] = <<>>
    THEN <<>>
    ELSE execLoop(b, "empire", 1, execLoop(b, "local", 1, <<>>))

InitParse ==
    /\ OutsideParseUnused
    /\ building \in Buildings
    /\ parsedModifiers = <<>>
    /\ parseOp = "none"

CallParseHurryModifiersFromBuilding ==
    /\ parseOp = "none"
    /\ parsedModifiers' = parseHurryModifiersFromBuilding(building)
    /\ parseOp' = "parsed"
    /\ UNCHANGED building
    /\ UNCHANGED outsideParse

NextParse == CallParseHurryModifiersFromBuilding

SpecParse == InitParse /\ [][NextParse]_vars

----------------------------------------------------------------------------
(* Modifier utilities (game-context.ts, formulas/modifiers.ts)             *)

\* largest magnitude of a value handed to applyModifier
MaxModifierValue == 20

\* largest magnitude of a modifier handed to applyModifier, percent
MaxModifierPercent == 150

ModifierValues == (0 - MaxModifierValue)..MaxModifierValue

ModifierPercents == (0 - MaxModifierPercent)..MaxModifierPercent

InitModifier ==
    /\ OutsideModUnused
    /\ modValue \in ModifierValues
    /\ modModifier \in ModifierPercents
    /\ modResult = 0
    /\ modOp = "none"

CallApplyModifier ==
    /\ modOp = "none"
    /\ modResult' = applyModifier(modValue, modModifier)
    /\ modOp' = "applied"
    /\ UNCHANGED <<modValue, modModifier>>
    /\ UNCHANGED outsideMod

NextModifier == CallApplyModifier

SpecModifier == InitModifier /\ [][NextModifier]_vars

\* longest list handed to applyModifierChain
MaxChain == 3

\* largest value handed to applyModifierChain
MaxChainValue == 30

ChainValues == 0..MaxChainValue

ChainModifiers == {-50, -20, -15, 25}

ModifierChains == UNION {[1..n -> ChainModifiers] : n \in 0..MaxChain}

\* the loop of applyModifierChain from element i on
RECURSIVE chainLoop(_, _, _)
chainLoop(mods, i, acc) ==
    IF i > Len(mods)
    THEN acc
    ELSE chainLoop(mods, i + 1, applyModifier(acc, mods[i]))

RECURSIVE SumOf(_, _)
SumOf(mods, i) == IF i > Len(mods) THEN 0 ELSE mods[i] + SumOf(mods, i + 1)

\* the chain with the modifiers added up and applied at once
applyModifierChainCombined(value, mods) ==
    applyModifier(value, SumOf(mods, 1))

\* the chain walking the list from its last element to its first
applyModifierChainReversed(value, mods) ==
    chainLoop([i \in 1..Len(mods) |-> mods[Len(mods) + 1 - i]], 1, value)

\* applyModifierChain(value, modifiers)
applyModifierChain(value, mods) == chainLoop(mods, 1, value)

InitChain ==
    /\ OutsideChainUnused
    /\ chainValue \in ChainValues
    /\ chainModifiers \in ModifierChains
    /\ chainResult = 0
    /\ chainOp = "none"

CallApplyModifierChain ==
    /\ chainOp = "none"
    /\ chainResult' = applyModifierChain(chainValue, chainModifiers)
    /\ chainOp' = "applied"
    /\ UNCHANGED <<chainValue, chainModifiers>>
    /\ UNCHANGED outsideChain

NextChain == CallApplyModifierChain

SpecChain == InitChain /\ [][NextChain]_vars

----------------------------------------------------------------------------
(* Throttle (utils/throttle.ts)                                            *)

\* the limit handed to createThrottle, milliseconds
ThrottleLimit == 3

\* last millisecond of the clock
MaxTime == 12

\* arguments a call may carry
CallArgs == {1, 2}

\* the clock when the throttled function is made: Date.now() is far past
\* lastRun = 0, so the first call finds the period over
StartTime == ThrottleLimit

\* the throttled function dropping its handle without clearTimeout
throttledKeepingTimer(st, pending, args, t) ==
    LET remaining == ThrottleLimit - (t - st.lastRun)
    IN  IF remaining <= 0
        THEN [lastRun |-> t, timeout |-> <<>>, timers |-> pending, ran |-> <<args>>]
        ELSE IF st.timeout = <<>>
        THEN [lastRun |-> st.lastRun,
              timeout |-> <<[due |-> t + remaining, args |-> args]>>,
              timers |-> pending \cup {[due |-> t + remaining, args |-> args]},
              ran |-> <<>>]
        ELSE [lastRun |-> st.lastRun, timeout |-> st.timeout, timers |-> pending,
              ran |-> <<>>]

\* the function returned by createThrottle, called with args at time t in
\* closure state st: the closure state afterwards, the timers afterwards and
\* the arguments func ran with (<<>> when it did not run)
throttled(st, pending, args, t) ==
    LET remaining == ThrottleLimit - (t - st.lastRun)
    IN  IF remaining <= 0
        THEN [lastRun |-> t, timeout |-> <<>>,
              timers |-> IF st.timeout # <<>> THEN pending \ {st.timeout[1]}
                         ELSE pending,
              ran |-> <<args>>]
        ELSE IF st.timeout = <<>>
        THEN [lastRun |-> st.lastRun,
              timeout |-> <<[due |-> t + remaining, args |-> args]>>,
              timers |-> pending \cup {[due |-> t + remaining, args |-> args]},
              ran |-> <<>>]
        ELSE [lastRun |-> st.lastRun, timeout |-> st.timeout, timers |-> pending,
              ran |-> <<>>]

InitThrottle ==
    /\ OutsideThrottleUnused
    /\ now = StartTime
    /\ lastRun = 0
    /\ timeout = <<>>
    /\ timers = {}
    /\ executions = <<>>
    /\ lastCallArgs = 0
    /\ throttleOp = "none"

\* the clock advances by a millisecond; a due timer may fire late
ThrottleTick ==
    /\ now < MaxTime
    /\ now' = now + 1
    /\ throttleOp' = "tick"
    /\ UNCHANGED <<lastRun, timeout, timers, executions, lastCallArgs>>
    /\ UNCHANGED outsideThrottle

\* a call of the throttled function
ThrottleCall ==
    /\ \E args \in CallArgs :
        \E call \in {throttled([lastRun |-> lastRun, timeout |-> timeout],
                               timers, args, now)} :
            /\ lastRun' = call.lastRun
            /\ timeout' = call.timeout
            /\ timers' = call.timers
            /\ executions' =
                   IF call.ran = <<>> THEN executions
                   ELSE Append(executions, [time |-> now, args |-> call.ran[1],
                                            trailing |-> FALSE])
            /\ lastCallArgs' = args
    /\ throttleOp' = "call"
    /\ UNCHANGED now
    /\ UNCHANGED outsideThrottle

\* the callback handed to setTimeout runs, not before the timer is due
ThrottleTimerFires ==
    /\ \E timer \in timers :
        /\ now >= timer.due
        /\ timers' = timers \ {timer}
        /\ lastRun' = now
        /\ timeout' = <<>>
        /\ executions' = Append(executions, [time |-> now, args |-> timer.args,
                                             trailing |-> TRUE])
    /\ throttleOp' = "timer"
    /\ UNCHANGED <<now, lastCallArgs>>
    /\ UNCHANGED outsideThrottle

NextThrottle ==
    \/ ThrottleTick
    \/ ThrottleCall
    \/ ThrottleTimerFires

SpecThrottle == InitThrottle /\ [][NextThrottle]_vars

----------------------------------------------------------------------------
(* Debounce (utils/throttle.ts)                                            *)

\* the delay handed to createDebounce, milliseconds
DebounceDelay == 3

\* the debounced function setting a new timer without clearTimeout
debouncedKeepingTimer(handle, pending, args, t) ==
    [timeout |-> <<[due |-> t + DebounceDelay, args |-> args]>>,
     timers |-> pending \cup {[due |-> t + DebounceDelay, args |-> args]}]

\* the function returned by createDebounce, called with args at time t:
\* the handle and the pending timers afterwards
debounced(handle, pending, args, t) ==
    [timeout |-> <<[due |-> t + DebounceDelay, args |-> args]>>,
     timers |-> (IF handle # <<>> THEN pending \ {handle[1]} ELSE pending)
                    \cup {[due |-> t + DebounceDelay, args |-> args]}]

InitDebounce ==
    /\ OutsideDebounceUnused
    /\ DebounceUnused

DebounceTick ==
    /\ clock < MaxTime
    /\ clock' = clock + 1
    /\ debounceOp' = "tick"
    /\ UNCHANGED <<debounceTimeout, debounceTimers, debounceRuns,
                   lastDebounceCall, bursts>>
    /\ UNCHANGED outsideDebounce

\* a call of the debounced function
DebounceCall ==
    /\ \E args \in CallArgs :
        \E call \in {debounced(debounceTimeout, debounceTimers, args, clock)} :
            /\ debounceTimeout' = call.timeout
            /\ debounceTimers' = call.timers
            /\ lastDebounceCall' = <<[time |-> clock, args |-> args]>>
    /\ bursts' = IF debounceTimers = {} THEN bursts + 1 ELSE bursts
    /\ debounceOp' = "call"
    /\ UNCHANGED <<clock, debounceRuns>>
    /\ UNCHANGED outsideDebounce

\* the callback handed to setTimeout runs, not before the timer is due
DebounceTimerFires ==
    /\ \E timer \in debounceTimers :
        /\ clock >= timer.due
        /\ debounceTimers' = debounceTimers \ {timer}
        /\ debounceTimeout' = <<>>
        /\ debounceRuns' = Append(debounceRuns,
                                  [time |-> clock, args |-> timer.args])
    /\ debounceOp' = "timer"
    /\ UNCHANGED <<clock, lastDebounceCall, bursts>>
    /\ UNCHANGED outsideDebounce

NextDebounce ==
    \/ DebounceTick
    \/ DebounceCall
    \/ DebounceTimerFires

SpecDebounce == InitDebounce /\ [][NextDebounce]_vars

----------------------------------------------------------------------------
(* Graph page: initial render and throttled updates                        *)

Effects == {"update", "initial"}

\* the effects that read one of the signals in their last run
dependents(deps, signals) == {e \in Effects : deps[e] \cap signals # {}}

\* the function handed to createThrottle: does it call Plotly.react
throttledUpdateRedraws(div, init) == div /\ init

\* the initial-render effect calling Plotly.newPlot whenever the element exists
initialRenderUnguarded(div, init) ==
    IF div
    THEN [initialized |-> TRUE, newPlot |-> TRUE,
          deps |-> {"plotDiv", "initialized", "controls"}]
    ELSE [initialized |-> init, newPlot |-> FALSE, deps |-> {"plotDiv"}]

\* the initial-render effect: the value of initialized afterwards, whether
\* Plotly.newPlot is called, and the signals read
initialRender(div, init) ==
    IF div /\ ~init
    THEN [initialized |-> TRUE, newPlot |-> TRUE,
          deps |-> {"plotDiv", "initialized", "controls"}]
    ELSE [initialized |-> init, newPlot |-> FALSE,
          deps |-> IF div THEN {"plotDiv", "initialized"} ELSE {"plotDiv"}]

\* the page is loaded: both effects are scheduled, the clock is far past 0
InitPlot ==
    /\ OutsidePlotUnused
    /\ plotDiv \in BOOLEAN
    /\ initialized = FALSE
    /\ dirtyEffects = Effects
    /\ effectDeps = [e \in Effects |-> {}]
    /\ plotNow = StartTime
    /\ plotThrottle = [lastRun |-> 0, timeout |-> <<>>]
    /\ plotTimers = {}
    /\ plotlyCalls = <<>>
    /\ lastChange = <<>>
    /\ plotOp = "none"

PlotTick ==
    /\ plotNow < MaxTime
    /\ plotNow' = plotNow + 1
    /\ plotOp' = "tick"
    /\ UNCHANGED <<plotDiv, initialized, dirtyEffects, effectDeps,
                   plotThrottle, plotTimers, plotlyCalls, lastChange>>
    /\ UNCHANGED outsidePlot

\* bind:this sets plotDiv
BindPlotDiv ==
    /\ ~plotDiv
    /\ plotDiv' = TRUE
    /\ dirtyEffects' = dirtyEffects \cup dependents(effectDeps, {"plotDiv"})
    /\ plotOp' = "bind"
    /\ UNCHANGED <<initialized, effectDeps, plotNow, plotThrottle, plotTimers,
                   plotlyCalls, lastChange>>
    /\ UNCHANGED outsidePlot

\* one of the controls read by the update effect changes
ChangeControl ==
    /\ dirtyEffects' = dirtyEffects \cup dependents(effectDeps, {"controls"})
    /\ lastChange' = <<plotNow>>
    /\ plotOp' = "change"
    /\ UNCHANGED <<plotDiv, initialized, effectDeps, plotNow, plotThrottle,
                   plotTimers, plotlyCalls>>
    /\ UNCHANGED outsidePlot

\* the update effect runs
RunUpdateEffect ==
    /\ "update" \in dirtyEffects
    /\ dirtyEffects' = dirtyEffects \ {"update"}
    /\ IF ~initialized
       THEN /\ effectDeps' = [effectDeps EXCEPT !["update"] = {"initialized"}]
            /\ UNCHANGED <<plotThrottle, plotTimers, plotlyCalls>>
       ELSE \E call \in {throttled(plotThrottle, plotTimers, 0, plotNow)} :
            /\ plotThrottle' = [lastRun |-> call.lastRun,
                                timeout |-> call.timeout]
            /\ plotTimers' = call.timers
            /\ plotlyCalls' =
                   IF call.ran # <<>> /\ throttledUpdateRedraws(plotDiv, initialized)
                   THEN Append(plotlyCalls, [fn |-> "react", time |-> plotNow])
                   ELSE plotlyCalls
            /\ effectDeps' =
                   [effectDeps EXCEPT !["update"] =
                       {"initialized", "controls"}
                           \cup IF call.ran # <<>> THEN {"plotDiv"} ELSE {}]
    /\ plotOp' = "update"
    /\ UNCHANGED <<plotDiv, initialized, plotNow, lastChange>>
    /\ UNCHANGED outsidePlot

\* the initial-render effect runs
RunInitialEffect ==
    /\ "initial" \in dirtyEffects
    /\ \E run \in {initialRender(plotDiv, initialized)} :
        /\ initialized' = run.initialized
        /\ dirtyEffects' =
               (dirtyEffects \ {"initial"})
                   \cup IF run.initialized # initialized
                        THEN dependents(effectDeps, {"initialized"})
                        ELSE {}
        /\ effectDeps' = [effectDeps EXCEPT !["initial"] = run.deps]
        /\ plotlyCalls' =
               IF run.newPlot
               THEN Append(plotlyCalls, [fn |-> "newPlot", time |-> plotNow])
               ELSE plotlyCalls
    /\ plotOp' = "initial"
    /\ UNCHANGED <<plotDiv, plotNow, plotThrottle, plotTimers, lastChange>>
    /\ UNCHANGED outsidePlot

\* the trailing timer of throttledUpdate fires, not before it is due
PlotTimerFires ==
    /\ \E timer \in plotTimers :
        /\ plotNow >= timer.due
        /\ plotTimers' = plotTimers \ {timer}
        /\ plotThrottle' = [lastRun |-> plotNow, timeout |-> <<>>]
    /\ plotlyCalls' =
           IF throttledUpdateRedraws(plotDiv, initialized)
           THEN Append(plotlyCalls, [fn |-> "react", time |-> plotNow])
           ELSE plotlyCalls
    /\ plotOp' = "timer"
    /\ UNCHANGED <<plotDiv, initialized, dirtyEffects, effectDeps, plotNow,
                   lastChange>>
    /\ UNCHANGED outsidePlot

NextPlot ==
    \/ PlotTick
    \/ BindPlotDiv
    \/ ChangeControl
    \/ RunUpdateEffect
    \/ RunInitialEffect
    \/ PlotTimerFires

SpecPlot == InitPlot /\ [][NextPlot]_vars

----------------------------------------------------------------------------
(* Purchase-cost calls                                                     *)

Idle == op = "none" /\ pc = "idle"

Init ==
    /\ productionCost \in Productions
    /\ ctx \in GameContexts
    /\ hurryModifier \in HurryModifiers
    /\ techProgress \in TechProgresses
    /\ constants \in CostConstants
    /\ op = "none"
    /\ options = NoOptions
    /\ result = 0
    /\ ratio = <<0, 1>>
    /\ targetRatio = <<0, 1>>
    /\ low = InitialLow
    /\ high = InitialHigh
    /\ pc = "idle"
    /\ OutsideCostUnused

CallPurchaseCostFromProduction ==
    /\ Idle
    /\ op' = "base"
    /\ result' = getPurchaseCostFromProduction(productionCost, ctx, hurryModifier,
                                               constants)
    /\ UNCHANGED <<productionCost, ctx, hurryModifier, techProgress, constants,
                   options, ratio, targetRatio, low, high, pc>>
    /\ UNCHANGED outsideCost

CallUnitPurchaseCost ==
    /\ Idle
    /\ \E m \in UnitModifiers, pm \in PlayerUnitModifiers, vp \in BOOLEAN :
          /\ options' = [hurryCostModifier     |-> m,
                         playerUnitPurchaseMod |-> pm,
                         hurryModifier         |-> hurryModifier,
                         techProgress          |-> techProgress,
                         enableVPAdjustments   |-> vp,
                         constants             |-> constants]
          /\ result' = getUnitPurchaseCost(productionCost, ctx, options')
    /\ op' = "unit"
    /\ UNCHANGED <<productionCost, ctx, hurryModifier, techProgress, constants,
                   ratio, targetRatio, low, high, pc>>
    /\ UNCHANGED outsideCost

CallBuildingPurchaseCost ==
    /\ Idle
    /\ \E m \in BuildingModifiers, pm \in PlayerBuildingModifiers,
          ts \in BOOLEAN, inv \in BOOLEAN :
          /\ options' = [buildingHurryCostModifier |-> m,
                         playerBuildingPurchaseMod |-> pm,
                         hurryModifier             |-> hurryModifier,
                         techProgress              |-> techProgress,
                         enableTechScaling         |-> ts,
                         isInvestment              |-> inv,
                         constants                 |-> constants]
          /\ result' = getBuildingPurchaseCost(productionCost, ctx, options')
    /\ op' = "building"
    /\ UNCHANGED <<productionCost, ctx, hurryModifier, techProgress, constants,
                   ratio, targetRatio, low, high, pc>>
    /\ UNCHANGED outsideCost

CallProjectPurchaseCost ==
    /\ Idle
    /\ op' = "project"
    /\ result' = getProjectPurchaseCost(productionCost, ctx, hurryModifier, constants)
    /\ UNCHANGED <<productionCost, ctx, hurryModifier, techProgress, constants,
                   options, ratio, targetRatio, low, high, pc>>
    /\ UNCHANGED outsideCost

Next ==
    \/ CallPurchaseCostFromProduction
    \/ CallUnitPurchaseCost
    \/ CallBuildingPurchaseCost
    \/ CallProjectPurchaseCost

Spec == Init /\ [][Next]_vars

----------------------------------------------------------------------------
(* Gold/production ratio calls                                             *)

InitRatio ==
    /\ productionCost \in RatioProductions
    /\ ctx \in GameContexts
    /\ hurryModifier = 0
    /\ techProgress = 0
    /\ constants \in RatioConstants
    /\ op = "none"
    /\ options = NoOptions
    /\ result = 0
    /\ ratio = <<0, 1>>
    /\ targetRatio = <<0, 1>>
    /\ low = InitialLow
    /\ high = InitialHigh
    /\ pc = "idle"
    /\ OutsideCostUnused

CallGoldToProductionRatio ==
    /\ Idle
    /\ op' = "ratio"
    /\ ratio' = getGoldToProductionRatio(productionCost, ctx, constants)
    /\ UNCHANGED <<productionCost, ctx, hurryModifier, techProgress, constants,
                   options, result, targetRatio, low, high, pc>>
    /\ UNCHANGED outsideCost

NextRatio == CallGoldToProductionRatio

SpecRatio == InitRatio /\ [][NextRatio]_vars

----------------------------------------------------------------------------
(* Break-even search: one action per loop iteration                        *)

InitBreakEven ==
    /\ productionCost = 0
    /\ ctx \in GameContexts
    /\ hurryModifier = 0
    /\ techProgress = 0
    /\ constants \in SearchConstants
    /\ op = "none"
    /\ options = NoOptions
    /\ result = 0
    /\ ratio = <<0, 1>>
    /\ targetRatio \in TargetRatios
    /\ low = InitialLow
    /\ high = InitialHigh
    /\ pc = "idle"
    /\ OutsideCostUnused

\* entry of getBreakEvenProductionCost: the two `let` declarations
BreakEvenStart ==
    /\ Idle
    /\ op' = "breakEven"
    /\ low' = InitialLow
    /\ high' = InitialHigh
    /\ pc' = "loop"
    /\ UNCHANGED <<productionCost, ctx, hurryModifier, techProgress, constants,
                   options, result, ratio, targetRatio>>
    /\ UNCHANGED outsideCost

\* an iteration that keeps `high` when the ratio is not above the target
BreakEvenStepStuck ==
    /\ pc = "loop"
    /\ high - low > 1
    /\ LET mid == (low + high) \div 2
       IN  /\ ratio' = getGoldToProductionRatio(mid, ctx, constants)
           /\ IF RatioGT(ratio', targetRatio)
              THEN low' = mid /\ high' = high
              ELSE high' = high /\ low' = low
    /\ UNCHANGED <<productionCost, ctx, hurryModifier, techProgress, constants,
                   op, options, result, targetRatio, pc>>
    /\ UNCHANGED outsideCost

\* one iteration of `while (high - low > 1)`
BreakEvenStep ==
    /\ pc = "loop"
    /\ high - low > 1
    /\ LET mid == (low + high) \div 2
       IN  /\ ratio' = getGoldToProductionRatio(mid, ctx, constants)
           /\ IF RatioGT(ratio', targetRatio)
              THEN low' = mid /\ high' = high
              ELSE high' = mid /\ low' = low
    /\ UNCHANGED <<productionCost, ctx, hurryModifier, techProgress, constants,
                   op, options, result, targetRatio, pc>>
    /\ UNCHANGED outsideCost

\* the exit with `return high` in place of `return low`
BreakEvenReturnHigh ==
    /\ pc = "loop"
    /\ ~(high - low > 1)
    /\ result' = high
    /\ pc' = "done"
    /\ UNCHANGED <<productionCost, ctx, hurryModifier, techProgress, constants,
                   op, options, ratio, targetRatio, low, high>>
    /\ UNCHANGED outsideCost

\* loop exit and `return low`
BreakEvenReturn ==
    /\ pc = "loop"
    /\ ~(high - low > 1)
    /\ result' = low
    /\ pc' = "done"
    /\ UNCHANGED <<productionCost, ctx, hurryModifier, techProgress, constants,
                   op, options, ratio, targetRatio, low, high>>
    /\ UNCHANGED outsideCost

NextBreakEven ==
    \/ BreakEvenStart
    \/ BreakEvenStep
    \/ BreakEvenReturn

SpecBreakEven == InitBreakEven /\ [][NextBreakEven]_vars

----------------------------------------------------------------------------
(* Properties of the purchase-cost pipelines                               *)

\* the stage sequence of a building purchase, written with the modifier
\* transform v |-> floor(v * (100 + m) / 100)
BuildingStageSequence(production, c, o) ==
    LET k       == o.constants
        divisor == k.GOLD_PURCHASE_VISIBLE_DIVISOR
        power   == PowFloor(production * k.GOLD_PURCHASE_GOLD_PER_PRODUCTION,
                            k.HURRY_GOLD_PRODUCTION_EXPONENT)
        stacked == applyModifier(power, Max(-100, o.hurryModifier))
        base    == IF production <= 0 THEN 0
                   ELSE Max(0, (stacked * c.gameSpeed.hurryPercent) \div 100)
        own     == applyModifier(base, o.buildingHurryCostModifier)
        player  == IF o.playerBuildingPurchaseMod # 0
                   THEN applyModifier(own, o.playerBuildingPurchaseMod)
                   ELSE own
        scaled  == IF o.enableTechScaling /\ o.techProgress > 0
                   THEN applyModifier(player, o.techProgress \div 3)
                   ELSE player
        invest  == IF o.isInvestment THEN (scaled * 6) \div 10 ELSE scaled
        rounded == invest - (invest % divisor)
    IN  IF rounded > divisor THEN rounded ELSE divisor

\* C1: for every building call whose intrinsic modifier is not -1, the result
\* is the fixed stage sequence: base cost (power floor, stacking modifier,
\* game speed), then the intrinsic modifier as its own later stage, then the
\* player-wide modifier if nonzero, then floor(progress/3) as a modifier when
\* scaling is enabled and progress > 0, then 6/10 when investing, then the
\* floor to the divisor, then the minimum clamp.
C1_BuildingStageOrder ==
    (op = "building" /\ options.buildingHurryCostModifier # -1)
        => result = BuildingStageSequence(productionCost, ctx, options)

C1_Witness ==
    /\ op = "building"
    /\ options.buildingHurryCostModifier = -20
    /\ options.hurryModifier = -20
    /\ options.playerBuildingPurchaseMod = -10
    /\ options.techProgress = 66
    /\ options.enableTechScaling
    /\ options.isInvestment
    /\ result > options.constants.GOLD_PURCHASE_VISIBLE_DIVISOR

\* the options of the documented regression: intrinsic -20, stacking -20,
\* progress 66, tech scaling on, investment
RegressionOptions(k) ==
    [buildingHurryCostModifier |-> -20,
     playerBuildingPurchaseMod |-> 0,
     hurryModifier             |-> -20,
     techProgress              |-> 66,
     enableTechScaling         |-> TRUE,
     isInvestment              |-> TRUE,
     constants                 |-> k]

\* C2: neither the merged variant nor the variant with the intrinsic stage
\* moved before the game-speed scaling is equivalent to
\* getBuildingPurchaseCost: with intrinsic -20 and stacking -20 some
\* production cost of the domain gets a different gold cost from each.
C2_MergedNotEquivalent ==
    (op = "building" /\ options = RegressionOptions(constants)) =>
        /\ \E p \in Productions :
              getBuildingPurchaseCostMerged(p, ctx, options)
                  # getBuildingPurchaseCost(p, ctx, options)
        /\ \E p \in Productions, c \in GameContexts :
              getBuildingPurchaseCostSwapped(p, c, options)
                  # getBuildingPurchaseCost(p, c, options)

C2_Witness ==
    /\ op = "building"
    /\ options = RegressionOptions(constants)
    /\ result # getBuildingPurchaseCostMerged(productionCost, ctx, options)
    /\ result # getBuildingPurchaseCostSwapped(productionCost, ctx, options)

\* the stage sequence of a unit purchase, written with the modifier transform
UnitStageSequence(production, c, o) ==
    LET k       == o.constants
        divisor == k.GOLD_PURCHASE_VISIBLE_DIVISOR
        base    == getPurchaseCostFromProduction(production, c, o.hurryModifier, k)
        own     == applyModifier(base, Max(-100, o.hurryCostModifier))
        player  == IF o.playerUnitPurchaseMod = 0 THEN own
                   ELSE applyModifier(own, Max(-100, o.playerUnitPurchaseMod))
        scaled  == IF o.enableVPAdjustments
                   THEN applyModifier(player, o.techProgress \div 2)
                   ELSE player
        flat    == IF o.enableVPAdjustments THEN (scaled * 8) \div 10 ELSE scaled
        rounded == flat - (flat % divisor)
    IN  IF rounded > divisor THEN rounded ELSE divisor

\* C3: for every unit call whose per-unit modifier is not -1, the result is
\* the stage sequence base cost, per-unit modifier, player-wide modifier,
\* floor(progress/2) as a modifier, 8/10, floor to the divisor, minimum clamp;
\* with the toggle off the progress and 8/10 stages are both skipped.
C3_UnitStageOrder ==
    (op = "unit" /\ options.hurryCostModifier # -1)
        => result = UnitStageSequence(productionCost, ctx, options)

C3_Witness ==
    /\ op = "unit"
    /\ options.hurryCostModifier = 25
    /\ options.playerUnitPurchaseMod = -10
    /\ options.hurryModifier = -20
    /\ options.techProgress = 50
    /\ options.enableVPAdjustments
    /\ result > options.constants.GOLD_PURCHASE_VISIBLE_DIVISOR

\* C4: a per-unit or intrinsic building modifier of -1 gives the result -1,
\* whatever the production cost, context, stacking modifier, progress,
\* toggles and constants are.
C4_SentinelUnpurchasable ==
    /\ (op = "unit" /\ options.hurryCostModifier = -1) => result = -1
    /\ (op = "building" /\ options.buildingHurryCostModifier = -1) => result = -1

C4_Witness ==
    /\ op = "unit"
    /\ options.hurryCostModifier = -1
    /\ productionCost > 0
    /\ options.enableVPAdjustments
    /\ result = -1

\* C5: every result of the unit, building and project operations other than
\* the -1 sentinel is a multiple of the visible divisor and at least the
\* divisor.
C5_VisibleDivisorMultiple ==
    (op \in {"unit", "building", "project"} /\ result # -1) =>
        /\ result % constants.GOLD_PURCHASE_VISIBLE_DIVISOR = 0
        /\ result >= constants.GOLD_PURCHASE_VISIBLE_DIVISOR

C5_Witness ==
    /\ op = "building"
    /\ options.buildingHurryCostModifier = -5
    /\ constants.GOLD_PURCHASE_VISIBLE_DIVISOR = 7
    /\ result > 7
    /\ getPurchaseCostFromProduction(productionCost, ctx, hurryModifier, constants)
           % 7 # 0

Unpurchasable ==
    \/ op = "unit" /\ options.hurryCostModifier = -1
    \/ op = "building" /\ options.buildingHurryCostModifier = -1

\* C6 as stated: for production <= 0 the unit, building and project
\* operations hand out the cost 0 unless the entity is unpurchasable.
C6_NonPositiveProductionIsZero ==
    (op \in {"unit", "building", "project"} /\ productionCost <= 0 /\ ~Unpurchasable)
        => result = 0

\* C6 amended: for production <= 0 the base cost of
\* getPurchaseCostFromProduction is 0, and the unit, building and project
\* operations return the visible divisor (the minimum cost) unless the
\* entity is unpurchasable.
C6_NonPositiveProductionIsMinimum ==
    productionCost <= 0 =>
        /\ op = "base" => result = 0
        /\ (op \in {"unit", "building", "project"} /\ ~Unpurchasable)
               => result = constants.GOLD_PURCHASE_VISIBLE_DIVISOR

C6_Witness ==
    /\ op = "project"
    /\ productionCost = 0
    /\ result = constants.GOLD_PURCHASE_VISIBLE_DIVISOR

\* C7: getPurchaseCostFromProduction never returns a negative value, returns
\* 0 for production <= 0, and returns 0 for a stacking modifier of -100 or
\* lower.
C7_BaseCostNeverNegative ==
    op = "base" =>
        /\ result >= 0
        /\ productionCost <= 0 => result = 0
        /\ hurryModifier <= -100 => result = 0

C7_Witness ==
    /\ op = "base"
    /\ productionCost > 0
    /\ hurryModifier = -120
    /\ result = 0

\* the operation `o` of the state applied to another production cost
CostOf(o, production) ==
    CASE o = "base"     -> getPurchaseCostFromProduction(production, ctx,
                                                         hurryModifier, constants)
      [] o = "unit"     -> getUnitPurchaseCost(production, ctx, options)
      [] o = "building" -> getBuildingPurchaseCost(production, ctx, options)
      [] o = "project"  -> getProjectPurchaseCost(production, ctx, hurryModifier,
                                                  constants)

\* C8: with the other inputs fixed, the cost of a production cost p1 > 0 is
\* at most the cost of any p2 >= p1, for the base cost and the unit, building
\* and project costs.
C8_MonotonicInProduction ==
    (op \in {"base", "unit", "building", "project"} /\ productionCost > 0) =>
        \A p2 \in productionCost..MaxProduction : result <= CostOf(op, p2)

C8_Witness ==
    /\ op = "building"
    /\ options.buildingHurryCostModifier = -200
    /\ options.playerBuildingPurchaseMod = -150
    /\ productionCost >= 2
    /\ getPurchaseCostFromProduction(productionCost, ctx, hurryModifier, constants)
           * (100 + options.buildingHurryCostModifier) < 0
    /\ CostOf(op, 1) < result

----------------------------------------------------------------------------
(* Properties of the ratio and of the break-even search                    *)

\* C9 as stated: the ratio of a production cost p1 > 0 is strictly above the
\* ratio of every larger production cost.
C9_RatioStrictlyDecreasing ==
    (op = "ratio" /\ productionCost > 0) =>
        \A p2 \in (productionCost + 1)..MaxRatioProduction :
            RatioGT(ratio, getGoldToProductionRatio(p2, ctx, constants))

\* r + (1 + hurryPercent/100) / production
FlooringSlack(r, production, c) ==
    <<100 * r[1] * production + (100 + c.gameSpeed.hurryPercent) * r[2],
      100 * r[2] * production>>

\* C9 amended: the ratio decreases up to the flooring error: for
\* 0 < p1 < p2, ratio(p2) < ratio(p1) + (1 + hurryPercent/100) / p1.
C9_RatioDecreasingUpToFlooring ==
    (op = "ratio" /\ productionCost > 0) =>
        \A p2 \in (productionCost + 1)..MaxRatioProduction :
            RatioGT(FlooringSlack(ratio, productionCost, ctx),
                    getGoldToProductionRatio(p2, ctx, constants))

C9_Witness ==
    /\ op = "ratio"
    /\ productionCost > 0
    /\ \E p2 \in (productionCost + 1)..MaxRatioProduction :
          RatioGT(getGoldToProductionRatio(p2, ctx, constants), ratio)

\* production costs the search can return
SearchDomain == InitialLow..(InitialHigh - 1)

AtOrBelowTarget(production) ==
    RatioLE(getGoldToProductionRatio(production, ctx, constants), targetRatio)

RatioNonIncreasing ==
    \A p \in InitialLow..(InitialHigh - 2) :
        RatioLE(getGoldToProductionRatio(p + 1, ctx, constants),
                getGoldToProductionRatio(p, ctx, constants))

SmallestAtOrBelowTarget(production) ==
    /\ production \in SearchDomain
    /\ AtOrBelowTarget(production)
    /\ \A q \in InitialLow..(production - 1) : ~AtOrBelowTarget(q)

\* C10 as stated: when the ratio is non-increasing over the search domain and
\* some production cost has a ratio at or below the target, the search
\* returns the smallest such production cost.
C10_ReturnsSmallestAtOrBelow ==
    (pc = "done" /\ RatioNonIncreasing /\ \E p \in SearchDomain : AtOrBelowTarget(p))
        => SmallestAtOrBelowTarget(result)

\* C10 amended: under the same conditions the search returns the production
\* cost just before the smallest one whose ratio is at or below the target,
\* or 1 when that smallest one is 1.
C10_ReturnsLastAboveTarget ==
    (pc = "done" /\ RatioNonIncreasing /\ \E p \in SearchDomain : AtOrBelowTarget(p))
        => IF AtOrBelowTarget(InitialLow)
           THEN result = InitialLow
           ELSE SmallestAtOrBelowTarget(result + 1)

C10_Witness ==
    /\ pc = "done"
    /\ result > InitialLow
    /\ result + 1 \in SearchDomain
    /\ AtOrBelowTarget(result + 1)
    /\ ~AtOrBelowTarget(result)
    /\ RatioNonIncreasing

----------------------------------------------------------------------------
(* Tech progress index                                                     *)

\* the technologies of a catalog in columns 0..x
TechsUpTo(technologies, x) ==
    Cardinality({i \in 1..Len(technologies) : technologies[i].GridX <= x})

\* the largest column of a catalog (0 for the empty catalog)
LargestColumn(technologies) ==
    IF technologies = <<>> THEN 0
    ELSE CHOOSE g \in {technologies[i].GridX : i \in 1..Len(technologies)} :
             \A i \in 1..Len(technologies) : technologies[i].GridX <= g

\* data is the progress index of the catalog, stated without the loops
IsTechProgressOf(data, technologies) ==
    /\ data.totalTechs = Len(technologies)
    /\ data.maxGridX = LargestColumn(technologies)
    /\ DOMAIN data.gridXToCumulativeTechs = 0..LargestColumn(technologies)
    /\ \A x \in 0..LargestColumn(technologies) :
           data.gridXToCumulativeTechs[x] = TechsUpTo(technologies, x)
    /\ DOMAIN data.techToGridX = {technologies[i].Type : i \in 1..Len(technologies)}
    /\ \A i \in 1..Len(technologies) :
           data.techToGridX[technologies[i].Type] = technologies[i].GridX

\* C11: between two clearTechProgressCache calls the build body runs at most
\* once, and every buildTechProgressData call returns the very same data as
\* the first call of that period, whatever catalog each call passed.
C11_ComputeOnce ==
    /\ buildRuns <= 1
    /\ Cardinality(returnedSinceClear) <= 1
    /\ cachedTechProgressData # Null => returnedSinceClear = {cachedTechProgressData}
    /\ techOp \in {"build", "reuse"} => returnedSinceClear = {techProgressData}

\* a later call, served from the cache filled by the one body run
C11_Witness ==
    /\ techOp = "reuse"
    /\ buildRuns = 1
    /\ builtFrom # <<>>
    /\ techProgressData = cachedTechProgressData
    /\ techProgressData.totalTechs = MaxTechs

\* C12: after clearTechProgressCache the next buildTechProgressData call runs
\* the body on the catalog passed to that call, and the data it built is what
\* the cache holds and what every call returns until the next clear.
C12_RebuildAfterClear ==
    /\ returnedSinceClear # {} => buildRuns = 1 /\ builtFrom # <<>>
    /\ cachedTechProgressData = Null => buildRuns = 0 /\ builtFrom = <<>>
    /\ cachedTechProgressData # Null =>
           /\ builtFrom # <<>>
           /\ IsTechProgressOf(cachedTechProgressData, builtFrom[1])
           /\ returnedSinceClear = {cachedTechProgressData}

\* after a clear: rebuilt from a non-empty catalog, then served again
C12_Witness ==
    /\ cleared
    /\ techOp = "reuse"
    /\ buildRuns = 1
    /\ builtFrom # <<>>
    /\ builtFrom[1] # <<>>
    /\ techProgressData = cachedTechProgressData

\* C13: for every catalog the cumulative count at the last column maxGridX
\* equals totalTechs.
C13_LastColumnIsTotal ==
    techProgressData # Null =>
        /\ techProgressData.maxGridX \in DOMAIN techProgressData.gridXToCumulativeTechs
        /\ techProgressData.gridXToCumulativeTechs[techProgressData.maxGridX]
               = techProgressData.totalTechs

\* a full catalog spread over several columns
C13_Witness ==
    /\ techOp = "build"
    /\ techProgressData.totalTechs = MaxTechs
    /\ techProgressData.maxGridX = MaxTechGridX
    /\ techProgressData.gridXToCumulativeTechs[0] = 1
    /\ techProgressData.gridXToCumulativeTechs[MaxTechGridX] = MaxTechs

\* C14: the cumulative table has an entry for every integer column
\* 0..maxGridX, a column without technologies carries the running total
\* forward, and the counts never decrease with the column.
C14_DenseAndNonDecreasing ==
    techProgressData # Null =>
        LET cumulative == techProgressData.gridXToCumulativeTechs
            occupied == DOMAIN techProgressData.gridXToTechNames
        IN  /\ DOMAIN cumulative = 0..techProgressData.maxGridX
            /\ 0 \notin occupied => cumulative[0] = 0
            /\ \A x \in 1..techProgressData.maxGridX :
                   /\ cumulative[x - 1] <= cumulative[x]
                   /\ x \notin occupied => cumulative[x] = cumulative[x - 1]

\* an empty column between two occupied ones carries the total forward
C14_Witness ==
    /\ techOp = "build"
    /\ techProgressData.maxGridX = 2
    /\ DOMAIN techProgressData.gridXToTechNames = {0, 2}
    /\ techProgressData.gridXToCumulativeTechs[1] = 2
    /\ techProgressData.gridXToCumulativeTechs[2] = 3

\* C15: getEstimatedTechsAtGridX returns the count at column 0 for a column
\* below 0, the count at maxGridX for a column above maxGridX, and the stored
\* count for a column inside the range.
C15_LookupClamps ==
    techOp = "lookup" =>
        LET cumulative == techProgressData.gridXToCumulativeTechs
        IN  techs = IF gridX < 0 THEN cumulative[0]
                    ELSE IF gridX > techProgressData.maxGridX
                         THEN cumulative[techProgressData.maxGridX]
                         ELSE cumulative[gridX]

\* a lookup below column 0 answered with the count of column 0
C15_Witness ==
    /\ techOp = "lookup"
    /\ gridX < 0
    /\ techs = techProgressData.gridXToCumulativeTechs[0]
    /\ 0 < techs
    /\ techs < techProgressData.totalTechs

----------------------------------------------------------------------------
(* Production cost to column correlation                                   *)

\* a correlation has been built and queried
Queried == corrOp \in {"gridX", "techs"}

\* indices of the sorted samples whose cost is the queried cost
SamplesAtCost == {i \in 1..Len(correlation.dataPoints) :
                     correlation.dataPoints[i].productionCost = cost}

\* smallest element of a non-empty set of integers
Least(S) == CHOOSE i \in S : \A j \in S : i <= j

\* C16 as stated: queried at a sample's production cost, the lookup returns
\* the stored column of that sample, for every sample of the correlation.
C16_ExactCostReturnsEverySample ==
    Queried =>
        \A i \in SamplesAtCost :
            estimatedGridX = <<correlation.dataPoints[i].gridX, 1>>

\* C16: queried at a sampled production cost, the lookup returns unchanged
\* (no interpolation) the stored column of the first sample of that cost,
\* first in the sorted array and first in the array handed to
\* buildProductionGridXCorrelation; this is the sample's own column when no
\* sample of another column shares its cost.
C16_ExactCostReturnsFirstSample ==
    (Queried /\ SamplesAtCost # {}) =>
        /\ branch = "lower"
        /\ lowerPoint = Least(SamplesAtCost)
        /\ upperPoint = Least(SamplesAtCost)
        /\ estimatedGridX = <<correlation.dataPoints[Least(SamplesAtCost)].gridX, 1>>
        /\ estimatedGridX =
               <<samples[Least({i \in 1..Len(samples) :
                                   samples[i].productionCost = cost})].gridX, 1>>
        /\ \A i \in SamplesAtCost :
               (\A j \in SamplesAtCost : correlation.dataPoints[j].gridX
                                             = correlation.dataPoints[i].gridX)
                   => estimatedGridX = <<correlation.dataPoints[i].gridX, 1>>

\* two samples of one cost and different columns, queried at that cost
C16_Witness ==
    /\ corrOp = "gridX"
    /\ branch = "lower"
    /\ \E i \in SamplesAtCost : \E j \in SamplesAtCost :
           /\ i < j
           /\ estimatedGridX = <<correlation.dataPoints[i].gridX, 1>>
           /\ estimatedGridX # <<correlation.dataPoints[j].gridX, 1>>

\* the queried cost lies strictly between two sampled costs
StrictlyBetweenSamples ==
    /\ SamplesAtCost = {}
    /\ \E i \in 1..Len(correlation.dataPoints) :
           correlation.dataPoints[i].productionCost < cost
    /\ \E i \in 1..Len(correlation.dataPoints) :
           correlation.dataPoints[i].productionCost > cost

\* the integer nearest to the number a, halves going up
IsRounded(r, a) ==
    /\ 2 * r * a[2] - a[2] <= 2 * a[1]
    /\ 2 * a[1] < 2 * r * a[2] + a[2]

\* C17: for a cost strictly between two sampled costs the lookup takes the
\* tightest lower and upper samples and returns lower.column + (cost -
\* lower.cost) / (upper.cost - lower.cost) * (upper.column - lower.column);
\* the tech lookup reads the count at that column rounded to the nearest
\* integer, so samples {300,5}, {600,8} queried at 450 give 6.5 and column 7.
C17_InterpolatesBetweenTightestBounds ==
    Queried =>
        LET dp == correlation.dataPoints
        IN  /\ StrictlyBetweenSamples <=> branch = "interpolate"
            /\ branch = "interpolate" =>
                   /\ dp[lowerPoint].productionCost < cost
                   /\ cost < dp[upperPoint].productionCost
                   /\ \A i \in 1..Len(dp) :
                          \/ dp[i].productionCost <= dp[lowerPoint].productionCost
                          \/ dp[i].productionCost >= dp[upperPoint].productionCost
                   /\ estimatedGridX[1]
                          * (dp[upperPoint].productionCost - dp[lowerPoint].productionCost)
                        = estimatedGridX[2]
                          * ( dp[lowerPoint].gridX
                                * (dp[upperPoint].productionCost
                                     - dp[lowerPoint].productionCost)
                            + (cost - dp[lowerPoint].productionCost)
                                * (dp[upperPoint].gridX - dp[lowerPoint].gridX))
                   /\ (dp[lowerPoint].productionCost = 300 /\ dp[lowerPoint].gridX = 5
                       /\ dp[upperPoint].productionCost = 600 /\ dp[upperPoint].gridX = 8
                       /\ cost = 450)
                          => estimatedGridX = <<13, 2>>
                   /\ corrOp = "techs" =>
                          \E r \in 0..techProgressData.maxGridX :
                              /\ IsRounded(r, estimatedGridX)
                              /\ estimatedTechs
                                     = techProgressData.gridXToCumulativeTechs[r]

\* the stated example: 450 between {300,5} and {600,8} gives 6.5, read at
\* column 7
C17_Witness ==
    /\ corrOp = "techs"
    /\ Len(correlation.dataPoints) = 2
    /\ correlation.dataPoints[1].productionCost = 300
    /\ correlation.dataPoints[1].gridX = 5
    /\ correlation.dataPoints[2].productionCost = 600
    /\ correlation.dataPoints[2].gridX = 8
    /\ cost = 450
    /\ branch = "interpolate"
    /\ estimatedGridX = <<13, 2>>
    /\ estimatedTechs = techProgressData.gridXToCumulativeTechs[7]
    /\ estimatedTechs # techProgressData.gridXToCumulativeTechs[6]

\* the columns of the samples
SampledColumns ==
    {correlation.dataPoints[i].gridX : i \in 1..Len(correlation.dataPoints)}

\* C18: for a cost below every sampled cost the lookup returns the column of
\* the first sample of the lowest cost, for a cost above every sampled cost
\* the column of the first sample of the highest cost, unchanged; the
\* returned column never leaves the range of the sampled columns.
C18_OneSidedReturnsEndSample ==
    (Queried /\ correlation.dataPoints # <<>>) =>
        LET dp == correlation.dataPoints
            highest == Least({i \in 1..Len(dp) :
                           \A j \in 1..Len(dp) :
                               dp[j].productionCost <= dp[i].productionCost})
        IN  /\ (\A i \in 1..Len(dp) : cost < dp[i].productionCost) =>
                   /\ branch = "upper"
                   /\ estimatedGridX = <<dp[1].gridX, 1>>
            /\ (\A i \in 1..Len(dp) : cost > dp[i].productionCost) =>
                   /\ branch = "lower"
                   /\ estimatedGridX = <<dp[highest].gridX, 1>>
            /\ \E g \in SampledColumns : NumberLE(<<g, 1>>, estimatedGridX)
            /\ \E g \in SampledColumns : NumberLE(estimatedGridX, <<g, 1>>)

\* a cost above every sample of a rising correlation
C18_Witness ==
    /\ corrOp = "gridX"
    /\ branch = "lower"
    /\ Len(correlation.dataPoints) = 2
    /\ correlation.dataPoints[1].gridX = 5
    /\ correlation.dataPoints[2].gridX = 8
    /\ correlation.dataPoints[2].productionCost < cost
    /\ estimatedGridX = <<8, 1>>

\* the samples have non-decreasing column as cost increases
ColumnsRiseWithCost ==
    \A i \in 1..Len(correlation.dataPoints) :
        \A j \in 1..Len(correlation.dataPoints) :
            correlation.dataPoints[i].productionCost
                < correlation.dataPoints[j].productionCost
            => correlation.dataPoints[i].gridX <= correlation.dataPoints[j].gridX

\* C19: for a correlation whose samples have non-decreasing column as cost
\* increases, a larger queried cost never returns a smaller column, across
\* all cases and with samples that share a cost.
C19_MonotonicInQueriedCost ==
    (Queried /\ ColumnsRiseWithCost) =>
        \A c \in QueryCosts :
            c >= cost =>
                NumberLE(estimatedGridX,
                         getGridXFromProductionCorrelation(correlation, c).gridX)

\* a bracketed query on rising samples of which two share a cost
C19_Witness ==
    /\ corrOp = "gridX"
    /\ ColumnsRiseWithCost
    /\ branch = "interpolate"
    /\ Len(correlation.dataPoints) = 3
    /\ correlation.dataPoints[1].productionCost
           = correlation.dataPoints[2].productionCost
    /\ correlation.dataPoints[1].gridX # correlation.dataPoints[3].gridX
    /\ cost = 400

\* C20: with no samples the lookup returns from its first branch, before
\* any bound scan, a column of the static building table nearest to the
\* cost, whatever the entity kind of the correlation.
C20_EmptyFallsBackToBuildingTable ==
    (Queried /\ correlation.dataPoints = <<>>) =>
        /\ branch = "empty"
        /\ lowerPoint = 0
        /\ upperPoint = 0
        /\ estimatedGridX[2] = 1
        /\ estimatedGridX[1] \in DOMAIN BUILDING_COST_BY_GRIDX
        /\ \A g \in DOMAIN BUILDING_COST_BY_GRIDX :
               Abs(cost - BUILDING_COST_BY_GRIDX[estimatedGridX[1]])
                   <= Abs(cost - BUILDING_COST_BY_GRIDX[g])

\* an empty unit correlation answered from the building table
C20_Witness ==
    /\ corrOp = "gridX"
    /\ correlation.dataPoints = <<>>
    /\ correlation.entityType = "unit"
    /\ branch = "empty"
    /\ cost = 450
    /\ estimatedGridX = <<7, 1>>

----------------------------------------------------------------------------
(* Static nearest-neighbor estimates                                       *)

\* the table an estimate was read from
EstimateTable ==
    IF estimateTable = "building" THEN BUILDING_COST_BY_GRIDX
    ELSE WONDER_COST_BY_GRIDX

\* C21: both estimates return a column of their table whose cost has minimum
\* absolute distance to the queried cost, and of the columns at that distance
\* (equal distance or equal table cost) the lowest one.
C21_NearestColumnLowestOnTies ==
    estOp = "estimate" =>
        /\ closestColumn \in DOMAIN EstimateTable
        /\ \A g \in DOMAIN EstimateTable :
               /\ Abs(estimateCost - EstimateTable[closestColumn])
                      <= Abs(estimateCost - EstimateTable[g])
               /\ Abs(estimateCost - EstimateTable[closestColumn])
                      = Abs(estimateCost - EstimateTable[g])
                  => closestColumn <= g

\* building cost 65 stands at columns 0 and 1: column 0 is returned
C21_Witness ==
    /\ estOp = "estimate"
    /\ estimateTable = "building"
    /\ estimateCost = 65
    /\ BUILDING_COST_BY_GRIDX[1] = 65
    /\ closestColumn = 0

----------------------------------------------------------------------------
(* Hurry modifier aggregation                                              *)

\* the three totals over scope 'all' have been calculated
AllTotalsDone == totalsDone = {"A", "B", "union"} /\ scope = "all"

\* C22 as stated: over scope 'all', for any two sets A and B of enabled
\* source ids, total(A union B) = total(A) + total(B).
C22_AdditiveOverAnyUnion ==
    AllTotalsDone => totalUnion = totalA + totalB

\* C22: over scope 'all', total(A union B) = total(A) + total(B) for two
\* sets A and B that share no source id; in general the total of the shared
\* ids is counted once: total(A union B) = total(A) + total(B) - total(A
\* intersect B).
C22_AdditiveOverDisjointUnion ==
    AllTotalsDone =>
        /\ enabledA \cap enabledB = {} => totalUnion = totalA + totalB
        /\ totalUnion = totalA + totalB
               - calculateTotalHurryModifier(enabledA \cap enabledB,
                                             allSources, "all")

\* two disjoint sets with a discount each
C22_Witness ==
    /\ AllTotalsDone
    /\ enabledA \cap enabledB = {}
    /\ totalA < 0
    /\ totalB < 0
    /\ totalA # totalB
    /\ totalUnion = totalA + totalB

----------------------------------------------------------------------------
(* Hurry modifier parsing                                                  *)

\* positions of the help text holding an occurrence of the discount phrase
Occurrences ==
    IF building.Help = <<>> THEN {}
    ELSE {i \in 1..Len(building.Help[1]) : building.Help[1][i].kind = "discount"}

\* occurrences followed by "in all Cities"
EmpireOccurrences ==
    {i \in Occurrences : building.Help[1][i].follows = "in all Cities"}

\* the returned sources of one scope
SourcesOfScope(sc) == {i \in 1..Len(parsedModifiers) : parsedModifiers[i].scope = sc}

\* C23: each occurrence of the discount phrase yields exactly one source,
\* of scope 'empire' when it is followed by 'in all Cities' and of scope
\* 'local' otherwise, so the number of sources is the number of occurrences;
\* no occurrence or no help text yields an empty list.
C23_OneSourcePerOccurrence ==
    parseOp = "parsed" =>
        /\ Len(parsedModifiers) = Cardinality(Occurrences)
        /\ Cardinality(SourcesOfScope("empire")) = Cardinality(EmpireOccurrences)
        /\ Cardinality(SourcesOfScope("local"))
               = Cardinality(Occurrences \ EmpireOccurrences)

----------------------------------------------------------------------------
(* Modifier utilities                                                      *)

\* C++ integer division by a positive divisor: truncation toward zero
CppDivide(a, b) == IF a >= 0 THEN a \div b ELSE 0 - ((0 - a) \div b)

\* C24: applyModifier(value, modifier) gives the result of the C++
\* computation value *= (100 + modifier); value /= 100, for all integer
\* values and modifiers, those with a negative product included.
C24_MatchesCppTruncation ==
    modOp = "applied" =>
        modResult = CppDivide(modValue * (100 + modModifier), 100)

\* the left fold of applyModifier, stated from the last element backwards
RECURSIVE FoldLeft(_, _, _)
FoldLeft(value, mods, n) ==
    IF n = 0 THEN value
    ELSE (FoldLeft(value, mods, n - 1) * (100 + mods[n])) \div 100

\* C25: applyModifierChain(value, modifiers) is the left-to-right fold of
\* applyModifier over the list in the given order, flooring after each
\* element, and is value itself for the empty list.
C25_ChainIsLeftFold ==
    chainOp = "applied" =>
        /\ chainResult = FoldLeft(chainValue, chainModifiers, Len(chainModifiers))
        /\ chainModifiers = <<>> => chainResult = chainValue

\* a chain whose result differs from the reversed chain and from the
\* modifiers combined into one
C25_Witness ==
    /\ chainOp = "applied"
    /\ Len(chainModifiers) = MaxChain
    /\ chainResult # applyModifierChainReversed(chainValue, chainModifiers)
    /\ chainResult # applyModifierChainCombined(chainValue, chainModifiers)

----------------------------------------------------------------------------
(* Throttle                                                                *)

\* C26: the trailing execution that follows calls made during the throttle
\* period runs after the period has ended and with the arguments of the
\* last call made during the period.
C26_TrailingRunsLastCall ==
    throttleOp = "timer" =>
        /\ executions[Len(executions)].trailing
        /\ executions[Len(executions)].args = lastCallArgs
        /\ Len(executions) >= 2 =>
               executions[Len(executions)].time
                   >= executions[Len(executions) - 1].time + ThrottleLimit

\* C27: any two consecutive executions of func are at least limit
\* milliseconds apart, and at most one trailing timer is pending at any time.
C27_ExecutionsSpacedOneTimer ==
    /\ Cardinality(timers) <= 1
    /\ timeout # <<>> => timers = {timeout[1]}
    /\ \A i \in 1..(Len(executions) - 1) :
           executions[i + 1].time >= executions[i].time + ThrottleLimit

\* an immediate execution, a trailing one and an immediate one again
C27_Witness ==
    /\ Len(executions) = 3
    /\ ~executions[1].trailing
    /\ executions[2].trailing
    /\ ~executions[3].trailing
    /\ executions[3].time = executions[2].time + ThrottleLimit

----------------------------------------------------------------------------
(* Debounce                                                                *)

\* C28: func runs only once delay milliseconds have passed since the latest
\* call and with that call's arguments; every call cancels the pending
\* timer, so at most one timer is pending, it belongs to the latest call,
\* and a burst of calls yields exactly one execution once its timer fired.
C28_RunsOnceAfterQuietDelay ==
    /\ Cardinality(debounceTimers) <= 1
    /\ debounceTimers # {} =>
           /\ debounceTimeout # <<>>
           /\ debounceTimers = {debounceTimeout[1]}
           /\ debounceTimeout[1].due = lastDebounceCall[1].time + DebounceDelay
           /\ debounceTimeout[1].args = lastDebounceCall[1].args
           /\ Len(debounceRuns) = bursts - 1
    /\ debounceTimers = {} => Len(debounceRuns) = bursts
    /\ debounceOp = "timer" =>
           /\ debounceRuns[Len(debounceRuns)].args = lastDebounceCall[1].args
           /\ debounceRuns[Len(debounceRuns)].time
                  >= lastDebounceCall[1].time + DebounceDelay

\* a burst of two calls with different arguments, run once with the last
C28_Witness ==
    /\ debounceOp = "timer"
    /\ bursts = 1
    /\ Len(debounceRuns) = 1
    /\ debounceRuns[1].args = 2
    /\ lastDebounceCall[1].time > 0
    /\ debounceRuns[1].time = lastDebounceCall[1].time + DebounceDelay

----------------------------------------------------------------------------
(* Graph page                                                              *)

NewPlots == {i \in 1..Len(plotlyCalls) : plotlyCalls[i].fn = "newPlot"}

\* C29: on the graph page Plotly.newPlot is called at most once, by the first
\* run of the initial-render effect that finds the plot element, and it is
\* the first call of Plotly; every later call is a Plotly.react issued by
\* the throttled update, so two of them are at least the limit apart, and
\* once the effects have run and no timer is pending the plot was drawn at
\* or after the latest control change.
C29_NewPlotOnceThenThrottledReact ==
    /\ NewPlots = IF initialized THEN {1} ELSE {}
    /\ initialized => plotDiv
    /\ (plotDiv /\ "initial" \notin dirtyEffects) => initialized
    /\ \A i \in 2..(Len(plotlyCalls) - 1) : plotlyCalls[i + 1].time >= plotlyCalls[i].time + ThrottleLimit
    /\ Cardinality(plotTimers) <= 1
    /\ (initialized /\ dirtyEffects = {} /\ plotTimers = {} /\ lastChange # <<>>) => plotlyCalls[Len(plotlyCalls)].time >= lastChange[1]

\* a control change after the first draw, redrawn by the trailing timer
C29_Witness ==
    /\ plotOp = "timer"
    /\ Len(plotlyCalls) = 3
    /\ plotlyCalls[3].fn = "react"
    /\ lastChange # <<>>
    /\ lastChange[1] > plotlyCalls[2].time
    /\ dirtyEffects = {}

----------------------------------------------------------------------------
(* Break-even search: termination                                          *)

\* C30: the binary search of getBreakEvenProductionCost terminates for every
\* target ratio: each iteration keeps 1 <= low < high <= 10000 and strictly
\* shrinks high - low, so the loop runs finitely often, and the value
\* returned at the exit is an integer in 1..9999.
C30_SearchTerminatesInRange ==
    [][/\ (pc = "loop" /\ pc' = "loop") =>
              /\ InitialLow <= low' /\ low' < high' /\ high' <= InitialHigh
              /\ high' - low' < high - low
       /\ (pc = "loop" /\ pc' = "done") =>
              /\ high - low = 1
              /\ result' \in InitialLow..(InitialHigh - 1)]_vars

\* the search returning for a target below every ratio and for one above
C30_Witness ==
    /\ pc = "done"
    /\ targetRatio \in {<<0, 1>>, <<1000, 1>>}
    /\ result = IF targetRatio = <<0, 1>> THEN InitialHigh - 1 ELSE InitialLow
    /\ high - low = 1

====
